---- MODULE Spec2Model ----
(***************************************************************************)
(* Model of the archive engine of the Total Commander packer plugin        *)
(* (src/src/archive.cpp, src/src/utils.cpp and the exported entry points). *)
(*                                                                         *)
(* Strings are sequences of UTF-16 code units (numbers).  Files are        *)
(* sequences of bytes.  An operation that throws is modelled by an "err"   *)
(* field that holds the name of the thrown code ("OK" when nothing was     *)
(* thrown).  The I/O buffer size is scaled down (see kBufSize); every      *)
(* other constant of the format keeps the value of the source.             *)
(***************************************************************************)
EXTENDS Integers, Sequences, FiniteSets

\* ------------------------------------------------------------------------
\* Code units used by the path functions.
\* ------------------------------------------------------------------------
kBackslash == 92
kSlash == 47
kStar == 42
kDot == 46

Min(a, b) == IF a < b THEN a ELSE b

\* towupper / towlower on the ASCII letters.
ToUpper(c) == IF c >= 97 /\ c <= 122 THEN c - 32 ELSE c
ToLower(c) == IF c >= 65 /\ c <= 90 THEN c + 32 ELSE c

UpperCase(s) == [i \in 1..Len(s) |-> ToUpper(s[i])]

IsSep(c) == c = kBackslash \/ c = kSlash

\* Index of the first position where two strings differ (0 when one is a
\* prefix of the other), after mapping both through f.
FirstDiff(a, b, i) ==
    LET diff == {k \in i..Min(Len(a), Len(b)) : a[k] # b[k]}
    IN  IF diff = {} THEN 0 ELSE CHOOSE k \in diff : \A j \in diff : k <= j

\* std::wstring operator< : lexicographic on the code units.
WLess(a, b) ==
    LET d == FirstDiff(a, b, 1)
    IN  IF d = 0 THEN Len(a) < Len(b) ELSE a[d] < b[d]

LowerCase(s) == [i \in 1..Len(s) |-> ToLower(s[i])]

\* _wcsicmp(lhs, rhs) < 0
StricmpPred(lhs, rhs) == WLess(LowerCase(lhs), LowerCase(rhs))

\* _wcsicmp(lhs, rhs) == 0
StricmpEq(lhs, rhs) == LowerCase(lhs) = LowerCase(rhs)

CombinePath(path, name) ==
    IF path # <<>> /\ name # <<>> /\ ~IsSep(path[Len(path)])
    THEN path \o <<kBackslash>> \o name
    ELSE path \o name

\* find_last_of(L"\\/"): 0 stands for npos.
FindLastSep(s, i) ==
    LET seps == {k \in 1..i : IsSep(s[k])}
    IN  IF seps = {} THEN 0 ELSE CHOOSE k \in seps : \A j \in seps : j <= k

ExtractFileName(path) ==
    LET it == FindLastSep(path, Len(path))
    IN  IF it = 0 THEN path ELSE SubSeq(path, it + 1, Len(path))

StripTrailingSlash(p) ==
    IF p # <<>> /\ IsSep(p[Len(p)]) THEN SubSeq(p, 1, Len(p) - 1) ELSE p

\* A plausible slip: the climb goes straight to the empty path.
UpDirToRoot(s) == <<>>

UpDir(s) ==
    LET last_slash == FindLastSep(s, Len(s))
    IN  IF last_slash = 0 THEN <<>> ELSE SubSeq(s, 1, last_slash - 1)

\* A plausible slip: the percentage is cut off, not rounded.
CalcPercentTruncated(number, count) ==
    IF count # 0 THEN (number * 100) \div count ELSE 0

CalcPercent(number, count) ==
    IF count # 0 THEN (number * 100 + count \div 2) \div count ELSE 0

\* The two orders the code sorts and searches with: StricmpPred (ci = TRUE)
\* and std::wstring operator< (ci = FALSE).
Less(ci, a, b) == IF ci THEN StricmpPred(a, b) ELSE WLess(a, b)

\* std::lower_bound over v: the index of the returned iterator, Len(v) + 1
\* standing for end().  It is the halving search of the library; on a range
\* that is not partitioned by the order it returns whatever the halving
\* steps lead to.
RECURSIVE LowerBoundFrom(_, _, _, _, _)
LowerBoundFrom(v, value, ci, first, count) ==
    IF count <= 0 THEN first
    ELSE LET step == count \div 2
             it == first + step
         IN  IF Less(ci, v[it], value)
             THEN LowerBoundFrom(v, value, ci, it + 1, count - (step + 1))
             ELSE LowerBoundFrom(v, value, ci, first, step)

LowerBound(v, value, ci) == LowerBoundFrom(v, value, ci, 1, Len(v))

\* std::sort: each element is inserted before the first greater one.
RECURSIVE InsertSorted(_, _, _)
InsertSorted(sorted, x, ci) ==
    IF sorted = <<>> THEN <<x>>
    ELSE IF Less(ci, x, Head(sorted)) THEN <<x>> \o sorted
    ELSE <<Head(sorted)>> \o InsertSorted(Tail(sorted), x, ci)

RECURSIVE Sort(_, _)
Sort(v, ci) ==
    IF v = <<>> THEN <<>>
    ELSE InsertSorted(Sort(SubSeq(v, 1, Len(v) - 1), ci), v[Len(v)], ci)

\* ------------------------------------------------------------------------
\* RemoveFileNameDuplicates (utils.cpp).
\* ------------------------------------------------------------------------
\* std::map<std::wstring, size_t, StricmpPred>: a set of [key, idx] records
\* with no two keys equivalent under StricmpPred.
MapFind(file_names, file_name) ==
    {e \in file_names : ~StricmpPred(e.key, file_name) /\ ~StricmpPred(file_name, e.key)}

\* First loop: the indices marked for removal, in marking order.
RECURSIVE MarkDuplicates(_, _, _, _)
MarkDuplicates(paths, path_index, file_names, to_remove) ==
    IF path_index > Len(paths) THEN to_remove
    ELSE LET file_name == ExtractFileName(paths[path_index])
             found == MapFind(file_names, file_name)
         IN  IF found = {}
             THEN MarkDuplicates(paths, path_index + 1,
                      file_names \cup {[key |-> file_name, idx |-> path_index]},
                      to_remove)
             ELSE LET it == CHOOSE e \in found : TRUE
                  IN  MarkDuplicates(paths, path_index + 1,
                          (file_names \ {it}) \cup {[key |-> it.key, idx |-> path_index]},
                          to_remove \o <<it.idx>>)

\* std::sort of the indices.
RECURSIVE InsertIndex(_, _)
InsertIndex(sorted, x) ==
    IF sorted = <<>> THEN <<x>>
    ELSE IF x < Head(sorted) THEN <<x>> \o sorted
    ELSE <<Head(sorted)>> \o InsertIndex(Tail(sorted), x)

RECURSIVE SortIndices(_)
SortIndices(v) ==
    IF v = <<>> THEN <<>>
    ELSE InsertIndex(SortIndices(SubSeq(v, 1, Len(v) - 1)), v[Len(v)])

\* A plausible slip: the removed slot is closed without the swap, so the
\* last path is lost instead of the marked one.
SwapRemoveDropsLast(paths, index_to_remove) == SubSeq(paths, 1, Len(paths) - 1)

\* One removal: swap with the last element unless it is the last, pop_back.
SwapRemove(paths, index_to_remove) ==
    LET path_count == Len(paths)
        swapped == IF index_to_remove < path_count
                   THEN [paths EXCEPT ![index_to_remove] = paths[path_count],
                                      ![path_count] = paths[index_to_remove]]
                   ELSE paths
    IN  SubSeq(swapped, 1, path_count - 1)

\* Second loop: removals from the highest marked index down.
RECURSIVE RemoveMarked(_, _, _)
RemoveMarked(paths, indices, i) ==
    IF i = 0 THEN paths
    ELSE RemoveMarked(SwapRemove(paths, indices[i]), indices, i - 1)

RemoveFileNameDuplicates(paths) ==
    LET path_indices_to_remove == SortIndices(MarkDuplicates(paths, 1, {}, <<>>))
    IN  RemoveMarked(paths, path_indices_to_remove, Len(path_indices_to_remove))

\* ------------------------------------------------------------------------
\* Format constants (archive.cpp, archive.hpp).
\* ------------------------------------------------------------------------
kFileHeader == <<83, 77, 80, 65, 49, 48, 48, 65>>      \* "SMPA100A"
kEntryMagic == 390318321                                \* 0x1743C8F1
kMaxFileNameLen == 1024
kMinFileSizeForCompression == 16
\* The 64 KB I/O buffer, scaled down so that files of one buffer, one buffer
\* plus one byte and several buffers are within reach of the checker.
kBufSize == 8
kEntryFlagDeleted == 1
kEntryFlagCompressed == 2
FILE_ATTR_DIRECTORY == 16
FILE_ATTR_ARCHIVE == 32

\* sizeof(EntryHeader) with #pragma pack(1), and the offsets of its fields.
kHeaderSize == 28
kFlagsOffset == 4
kPackSizeOffset == 10

\* The least time between two calls of the progress callback, in ms.
kProgressUpdateIntervalMilliseconds == 40

HasFlag(bits, flag) == (bits \div flag) % 2 = 1
SetFlag(bits, flag) == IF HasFlag(bits, flag) THEN bits ELSE bits + flag

\* ------------------------------------------------------------------------
\* Little-endian fields.  The model keeps every stored number below 2^31
\* and, of the 64-bit fields, the numbers from 2^64 - 2^31 on: these as the
\* negative numbers that the cast to long long makes of them, so an unsigned
\* "greater than 0" is written "not 0".
\* ------------------------------------------------------------------------
Pow256(i) == CASE i = 0 -> 1 [] i = 1 -> 256 [] i = 2 -> 65536 [] i = 3 -> 16777216

ToLE(n, width) ==
    [i \in 1..width |-> IF i <= 4 THEN (n \div Pow256(i - 1)) % 256
                        ELSE IF n < 0 THEN 255 ELSE 0]

FromLE(bytes) ==
    LET b(i) == IF i <= Len(bytes) THEN bytes[i] ELSE 0
        low == b(1) + 256 * b(2) + 65536 * b(3) + 16777216 * (b(4) % 128)
    IN  IF Len(bytes) = 8 /\ b(4) >= 128 /\ \A i \in 5..8 : b(i) = 255
        THEN (low - 2147483647) - 1
        ELSE low

EntryHeader(magic, flags, attributes, time, pack_size, unp_size, path_len) ==
    [magic |-> magic, flags |-> flags, attributes |-> attributes, time |-> time,
     pack_size |-> pack_size, unp_size |-> unp_size, path_len |-> path_len]

ZeroHeader == EntryHeader(0, 0, 0, 0, 0, 0, 0)

\* The bytes of a header as fwrite(&header, sizeof(header), 1, f) stores them.
HeaderBytes(h) ==
    ToLE(h.magic, 4) \o <<h.flags>> \o <<h.attributes>> \o ToLE(h.time, 4)
        \o ToLE(h.pack_size, 8) \o ToLE(h.unp_size, 8) \o ToLE(h.path_len, 2)

\* The header fread(&last_header_, sizeof(last_header_), 1, f) fills in.
HeaderOfBytes(b) ==
    EntryHeader(FromLE(SubSeq(b, 1, 4)), b[5], b[6], FromLE(SubSeq(b, 7, 10)),
                FromLE(SubSeq(b, 11, 18)), FromLE(SubSeq(b, 19, 26)),
                FromLE(SubSeq(b, 27, 28)))

\* A path as fwrite(path.data(), sizeof(wchar_t), path.length(), f) stores it.
PathBytes(path) ==
    [i \in 1..(2 * Len(path)) |-> IF i % 2 = 1 THEN path[(i + 1) \div 2] % 256
                                  ELSE path[i \div 2] \div 256]

\* A plausible slip: the last code unit of the path is dropped.
PathOfBytesTruncated(b) == [i \in 1..(Len(b) \div 2 - 1) |-> b[2 * i - 1] + 256 * b[2 * i]]

PathOfBytes(b) == [i \in 1..(Len(b) \div 2) |-> b[2 * i - 1] + 256 * b[2 * i]]

\* ------------------------------------------------------------------------
\* The archive object: the FILE (its bytes f and cursor pos), the members of
\* ArchiveBase, and what the model observes about a call: the offsets written
\* (w), the tick count (now), the calls of the progress callback made on
\* this object in this call and the last one before, each with whether it
\* went to the callback of the object or to the global one (invoked), how many
\* were made in this call (n), the one the host answers with 0 (cancelAt,
\* 0 for never), the source files and directories the call deleted, in the
\* order of deletion, each with its index in the candidate list (deleted),
\* whether CalcPercent was called with a count of 0 (asserted), and the code
\* thrown (err).
\* ------------------------------------------------------------------------
\*   g_global_process_data_proc  the callback registered without a handle
\*                               (TRUE for a non-null pointer)
\*   tickStep                    the ms that pass between two successive
\*                               reads of the tick count or calls of the
\*                               callback
\*   packing                     the PackFilesW call that another thread of
\*                               the host is in, on another archive file
VARIABLES g_global_process_data_proc, tickStep, packing

\* The tick count when an archive object is constructed.
Uptime == 1000

NewArchive(f, cancelAt) ==
    [f |-> f, pos |-> 0, w |-> {}, over |-> {}, rd |-> {}, n |-> 0,
     cancelAt |-> cancelAt,
     err |-> "OK",
     last_header_ |-> ZeroHeader, last_header_path_ |-> <<>>,
     original_archive_size_ |-> 0,
     process_data_proc_ |-> FALSE, last_progress_time_ |-> 0,
     bytes_processed_since_previous_progress_ |-> 0,
     now |-> Uptime, invoked |-> <<>>, deleted |-> <<>>, asserted |-> FALSE]

Throw(a, code) == [a EXCEPT !.err = code]

\* fread of up to count bytes at the cursor.  rd collects the offsets read.
Avail(a) == IF a.pos >= Len(a.f) THEN 0 ELSE Len(a.f) - a.pos
FreadBytes(a, count) == SubSeq(a.f, a.pos + 1, a.pos + Min(count, Avail(a)))
FreadAdvance(a, count) ==
    [a EXCEPT !.pos = @ + Min(count, Avail(a)),
              !.rd = @ \cup ((a.pos)..(a.pos + Min(count, Avail(a)) - 1))]

Zeros(k) == [i \in 1..k |-> 0]

\* fwrite at the cursor: overwrites, extends, and fills a gap left by a seek
\* past the end with zero bytes.  w collects the offsets written, over those
\* of them that held a byte of the file before the write.
Fwrite(a, bytes) ==
    LET padded == IF a.pos > Len(a.f) THEN a.f \o Zeros(a.pos - Len(a.f)) ELSE a.f
        endpos == a.pos + Len(bytes)
    IN  IF bytes = <<>> THEN a
        ELSE [a EXCEPT !.f = SubSeq(padded, 1, a.pos) \o bytes
                                 \o SubSeq(padded, endpos + 1, Len(padded)),
                       !.pos = endpos,
                       !.w = @ \cup ((a.pos)..(endpos - 1)),
                       !.over = @ \cup ((a.pos)..(Min(endpos, Len(a.f)) - 1))]

\* SeekOrThrow: origin is "SET", "CUR" or "END".
SeekOrThrow(a, offset, origin) ==
    LET target == CASE origin = "SET" -> offset
                    [] origin = "CUR" -> a.pos + offset
                    [] origin = "END" -> Len(a.f) + offset
    IN  IF target < 0 THEN Throw(a, "E_NOT_SUPPORTED")
        ELSE [a EXCEPT !.pos = target]

\* GetTickCount64: time has passed since the clock was last looked at.
GetTickCount64(a) == [a EXCEPT !.now = @ + tickStep]

\* What the host's callback returns at its n-th call of this operation.
HostAnswer(n, cancelAt) == IF n = cancelAt THEN 0 ELSE 1

\* A null file name, and the name of the archive file.
nullptr == <<>>
packedFile == <<97>>

\* ArchiveBase::CallProcessDataProc: [a, result].  The callback of the
\* object, else the global one, else 1.  The record of the call keeps the
\* two arguments, the cursor, the offsets written and the byte count of the
\* object at the time of the call.
CallProcessDataProc(a, file_name, size) ==
    IF a.process_data_proc_ \/ g_global_process_data_proc
    THEN [a |-> [a EXCEPT !.n = @ + 1,
                          !.invoked = Append(@, [time |-> a.now,
                                                 result |-> HostAnswer(a.n + 1, a.cancelAt),
                                                 file_name |-> file_name, size |-> size,
                                                 pos |-> a.pos, w |-> a.w,
                                                 acc |-> a.bytes_processed_since_previous_progress_,
                                                 own |-> a.process_data_proc_])],
          result |-> HostAnswer(a.n + 1, a.cancelAt)]
    ELSE [a |-> a, result |-> 1]

\* A plausible slip: a report is due at the interval, not after it.
ProgressDueAtInterval(curr_time, last_progress_time_) ==
    curr_time >= last_progress_time_ + kProgressUpdateIntervalMilliseconds

\* The test of UpdateBytesProcessedProgress and UpdateDirectProgress.
ProgressDue(curr_time, last_progress_time_) ==
    curr_time > last_progress_time_ + kProgressUpdateIntervalMilliseconds

\* The body of the if of both, called being what CallProcessDataProc
\* returned at curr_time.
ProgressCalled(called, curr_time) ==
    [a |-> [called.a EXCEPT !.last_progress_time_ = curr_time],
     cancelled |-> called.result = 0]

INT_MAX == 2147483647

\* A plausible slip: the byte count is cast to int without the cap.
ReportedSizeUncapped(bytes_processed) == bytes_processed

\* The size UpdateBytesProcessedProgress passes: the byte count, INT_MAX if
\* it is above INT_MAX.  The count is unsigned; a negative number stands for
\* one from 2^64 - 2^31 on.
ReportedSize(bytes_processed) ==
    IF bytes_processed < 0 \/ bytes_processed > INT_MAX THEN INT_MAX
    ELSE bytes_processed

\* A plausible slip: the byte count is not reset after a report.
BytesReportedKept(u) == u

\* The reset of the byte count after the callback returned.
BytesReported(u) ==
    [u EXCEPT !.a.bytes_processed_since_previous_progress_ = 0]

\* UpdateDirectProgress: [a, cancelled].
UpdateDirectProgress(a, file_name, size) ==
    LET t == GetTickCount64(a)
    IN  IF ProgressDue(t.now, t.last_progress_time_)
        THEN ProgressCalled(CallProcessDataProc(t, file_name, size), t.now)
        ELSE [a |-> t, cancelled |-> FALSE]

\* UpdateBytesProcessedProgress: [a, cancelled].
UpdateBytesProcessedProgress(a) ==
    LET t == GetTickCount64(a)
        size == ReportedSize(t.bytes_processed_since_previous_progress_)
    IN  IF ProgressDue(t.now, t.last_progress_time_)
        THEN BytesReported(ProgressCalled(CallProcessDataProc(t, nullptr, size), t.now))
        ELSE [a |-> t, cancelled |-> FALSE]

\* bytes_processed_since_previous_progress_ += count.
BytesProcessed(a, count) ==
    [a EXCEPT !.bytes_processed_since_previous_progress_ = @ + count]

\* A plausible slip: the answer of the callback is dropped.
ThrowIfCancelledNever(u) == u.a

\* The caller's "if (Update...Progress()) throw E_EABORTED".
ThrowIfCancelled(u) == IF u.cancelled THEN Throw(u.a, "E_EABORTED") ELSE u.a

Report(a) == ThrowIfCancelled(UpdateBytesProcessedProgress(a))

\* "if (UpdateDirectProgress(file_name, size)) throw E_EABORTED".
ReportDirect(a, file_name, size) ==
    ThrowIfCancelled(UpdateDirectProgress(a, file_name, size))

\* A plausible slip: the file header is read and not compared.
ReadAndCheckHeaderUncompared(a) == FreadAdvance(a, Len(kFileHeader))

\* ------------------------------------------------------------------------
\* ArchiveBase: header reading and the tombstoning scan.
\* ------------------------------------------------------------------------
ReadAndCheckHeader(a) ==
    LET header_len == Len(kFileHeader)
        header == FreadBytes(a, header_len)
        b == FreadAdvance(a, header_len)
    IN  IF Len(header) # header_len THEN Throw(b, "E_EREAD")
        ELSE IF header # kFileHeader THEN Throw(b, "E_BAD_ARCHIVE")
        ELSE BytesProcessed(b, header_len)

\* ReadEntryHeader: [a, ok]; ok = FALSE is the "return false" at the end of
\* the file, a throw is in a.err.
ReadEntryHeader(a) ==
    LET raw == FreadBytes(a, kHeaderSize)
        b == FreadAdvance(a, kHeaderSize)
    IN  IF Len(raw) < kHeaderSize
        THEN [a |-> [b EXCEPT !.last_header_ = ZeroHeader], ok |-> FALSE]
        ELSE
        LET h == HeaderOfBytes(raw)
            bad == [b EXCEPT !.last_header_ = h]
            c == BytesProcessed(bad, kHeaderSize)
            path_len == h.path_len
            name_buf == FreadBytes(c, 2 * path_len)
            d == FreadAdvance(c, 2 * path_len)
        IN  IF h.magic # kEntryMagic THEN [a |-> Throw(bad, "E_BAD_ARCHIVE"), ok |-> FALSE]
            ELSE IF path_len = 0 THEN [a |-> Throw(c, "E_BAD_ARCHIVE"), ok |-> FALSE]
            ELSE IF path_len > kMaxFileNameLen - 1
                 THEN [a |-> Throw(c, "E_SMALL_BUF"), ok |-> FALSE]
            ELSE IF Len(name_buf) \div 2 # path_len
                 THEN [a |-> Throw(d, "E_EREAD"), ok |-> FALSE]
            ELSE [a |-> [BytesProcessed(d, path_len)
                             EXCEPT !.last_header_path_ = PathOfBytes(name_buf)],
                  ok |-> TRUE]

\* DeletingArchive::ShouldDelete: paths_to_delete is upper-case and sorted.
\* The body of the loop: [path, result, again], again = FALSE being the
\* "return true".
ShouldDeleteStep(final_curr_path, paths_to_delete) ==
    LET it == LowerBound(paths_to_delete, final_curr_path, FALSE)
    IN  IF it <= Len(paths_to_delete) /\ paths_to_delete[it] = final_curr_path
        THEN [path |-> final_curr_path, result |-> TRUE, again |-> FALSE]
        ELSE [path |-> UpDir(final_curr_path), result |-> FALSE, again |-> TRUE]

RECURSIVE ShouldDeleteFrom(_, _)
ShouldDeleteFrom(final_curr_path, paths_to_delete) ==
    IF final_curr_path = <<>> THEN FALSE
    ELSE LET s == ShouldDeleteStep(final_curr_path, paths_to_delete)
         IN  IF s.again THEN ShouldDeleteFrom(s.path, paths_to_delete) ELSE s.result

ShouldDelete(curr_path, paths_to_delete) ==
    ShouldDeleteFrom(UpperCase(curr_path), paths_to_delete)

\* The predicate PackFilesW passes to DeleteIf.
SupersededByPack(last_header_path, archive_paths_to_add) ==
    LET it == LowerBound(archive_paths_to_add, last_header_path, TRUE)
    IN  it <= Len(archive_paths_to_add)
        /\ StricmpEq(last_header_path, archive_paths_to_add[it])

\* A plausible slip: the predicate holds of every entry.
DeletePredAlways(a, kind, paths) == TRUE

\* The two predicates DeleteIf is instantiated with.
DeletePred(a, kind, paths) ==
    IF kind = "pack" THEN SupersededByPack(a.last_header_path_, paths)
    ELSE ShouldDelete(a.last_header_path_, paths)

\* A plausible slip: the skip goes one byte too far.
SeekPastOneMore(a, pack_size) == SeekOrThrow(a, pack_size + 1, "CUR")

SeekPast(a, pack_size) ==
    IF pack_size # 0 THEN SeekOrThrow(a, pack_size, "CUR") ELSE a

\* An iteration of the inner loop of DeleteIf, r being what ReadEntryHeader
\* returned: [a, ok, entry_begin_offset, again].
HeaderSeen(r, entry_begin_offset) ==
    IF r.a.err # "OK" \/ ~r.ok
    THEN [a |-> r.a, ok |-> FALSE, entry_begin_offset |-> entry_begin_offset,
          again |-> FALSE]
    ELSE IF HasFlag(r.a.last_header_.flags, kEntryFlagDeleted)
    THEN LET skipped == SeekPast(r.a, r.a.last_header_.pack_size)
         IN  [a |-> skipped, ok |-> FALSE, entry_begin_offset |-> entry_begin_offset,
              again |-> skipped.err = "OK"]
    ELSE [a |-> r.a, ok |-> TRUE, entry_begin_offset |-> entry_begin_offset,
          again |-> FALSE]

\* The inner loop of DeleteIf: reads headers until a non-deleted one.
\* [a, ok, entry_begin_offset].
RECURSIVE NextLiveHeader(_)
NextLiveHeader(a) ==
    LET s == HeaderSeen(ReadEntryHeader(a), a.pos)
    IN  IF s.again THEN NextLiveHeader(s.a)
        ELSE [a |-> s.a, ok |-> s.ok, entry_begin_offset |-> s.entry_begin_offset]

\* Plausible slips: the whole flags byte is replaced by the Deleted bit; the
\* byte is written back as it was read.
NewFlagsOnlyDeleted(flags) == kEntryFlagDeleted
NewFlagsUnchanged(flags) == flags

NewFlags(flags) == SetFlag(flags, kEntryFlagDeleted)

\* The flag rewrite of DeleteIf.
MarkDeleted(a, entry_begin_offset) ==
    SeekOrThrow(Fwrite(SeekOrThrow(a, entry_begin_offset + kFlagsOffset, "SET"),
                       <<NewFlags(a.last_header_.flags)>>),
                a.pos, "SET")

\* The object after a call of CalcPercent with this count.
PercentOf(a, count) == [a EXCEPT !.asserted = @ \/ count = 0]

\* The progress value of DeleteIf: minus the percentage of the archive that
\* lies before the entry, 100 at most.
ScanProgress(entry_begin_offset, original_archive_size_) ==
    -Min(100, CalcPercent(entry_begin_offset, original_archive_size_))

\* The rest of an iteration of the outer loop of DeleteIf, marked being the
\* archive after the flag rewrite, if any: [a, again].
DeleteIfMarked(marked, entry_begin_offset) ==
    LET skipped == IF marked.err = "OK"
                   THEN SeekPast(marked, marked.last_header_.pack_size)
                   ELSE marked
        reported == IF skipped.err = "OK"
                    THEN ReportDirect(PercentOf(skipped, skipped.original_archive_size_),
                                      nullptr,
                                      ScanProgress(entry_begin_offset,
                                                   skipped.original_archive_size_))
                    ELSE skipped
    IN  [a |-> reported, again |-> reported.err = "OK"]

\* An iteration of the outer loop, r being what the inner loop found:
\* [a, again], again = FALSE being the "return" and every throw.
DeleteIfFrom(r, kind, paths) ==
    IF ~r.ok THEN [a |-> r.a, again |-> FALSE]
    ELSE DeleteIfMarked(IF DeletePred(r.a, kind, paths)
                        THEN MarkDeleted(r.a, r.entry_begin_offset)
                        ELSE r.a,
                        r.entry_begin_offset)

RECURSIVE DeleteIf(_, _, _)
DeleteIf(a, kind, paths) ==
    LET s == DeleteIfFrom(NextLiveHeader(a), kind, paths)
    IN  IF s.again THEN DeleteIf(s.a, kind, paths) ELSE s.a

\* ------------------------------------------------------------------------
\* The compression library behind deflate()/inflate(): a streaming run-length
\* coder with the interface of z_stream.  A stream is a header of two bytes,
\* then <<count, byte>> runs, then a zero count and a checksum byte; it is
\* shorter than its input on long runs and longer on short ones.
\*   in   the unread part of the input buffer (next_in, avail_in)
\*   out  what the call has put into the output buffer; avail_out is
\*        kBufSize - Len(out)
\* ------------------------------------------------------------------------
kStreamHead == 120
kStreamHead2 == 156
kMaxRun == 255

NewDeflate ==
    [in |-> <<>>, out |-> <<>>, pend |-> <<>>, run_byte |-> 0, run_count |-> 0,
     sum |-> 0, started |-> FALSE, finished |-> FALSE]

\* Moves pending output into the output buffer, as much as fits.
Drain(z) ==
    LET k == Min(Len(z.pend), kBufSize - Len(z.out))
    IN  [z EXCEPT !.out = @ \o SubSeq(z.pend, 1, k),
                  !.pend = SubSeq(z.pend, k + 1, Len(z.pend))]

RunBytes(z) == IF z.run_count > 0 THEN <<z.run_count, z.run_byte>> ELSE <<>>
HeadBytes(z) == IF z.started THEN <<>> ELSE <<kStreamHead, kStreamHead2>>

\* Consumes input.  A lazy coder keeps all output back until the stream is
\* finished; an eager one emits as it goes and stops, as deflate() is
\* documented to, when the input buffer is empty or the output buffer full.
RECURSIVE DeflateConsume(_, _)
DeflateConsume(z, lazy) ==
    LET d == IF lazy THEN z ELSE Drain(z)
    IN  IF d.in = <<>> THEN d
        ELSE IF ~lazy /\ Len(d.out) = kBufSize THEN d
        ELSE
        LET c == Head(d.in)
            same == d.run_count > 0 /\ c = d.run_byte /\ d.run_count < kMaxRun
        IN  DeflateConsume(
                [d EXCEPT !.in = Tail(@),
                          !.pend = IF same THEN @ \o HeadBytes(d)
                                   ELSE @ \o HeadBytes(d) \o RunBytes(d),
                          !.started = TRUE,
                          !.run_byte = c,
                          !.run_count = IF same THEN @ + 1 ELSE 1,
                          !.sum = (@ + c) % 256],
                lazy)

\* Z_FINISH once the input is used up: the last run, the end marker and the
\* checksum become pending output; then what is pending is flushed.
DeflateFinish(z1, finish, lazy) ==
    LET z2 == IF finish /\ z1.in = <<>> /\ ~z1.finished
              THEN [z1 EXCEPT !.pend = @ \o HeadBytes(z1) \o RunBytes(z1) \o <<0, z1.sum>>,
                              !.started = TRUE, !.run_count = 0, !.finished = TRUE]
              ELSE z1
    IN  IF lazy /\ ~z2.finished THEN z2 ELSE Drain(z2)

DeflateResult(z, z3, finish) ==
    [z |-> z3,
     result |-> IF z3.finished /\ z3.pend = <<>> THEN "Z_STREAM_END"
                ELSE IF Len(z3.in) = Len(z.in) /\ z3.out = z.out /\ ~finish
                THEN "Z_BUF_ERROR"
                ELSE "Z_OK"]

\* deflate(strm, finish ? Z_FINISH : Z_NO_FLUSH): [z, result].
Deflate(z, finish, lazy) ==
    DeflateResult(z, DeflateFinish(DeflateConsume(z, lazy), finish, lazy), finish)

NewInflate ==
    [in |-> <<>>, out |-> <<>>, phase |-> "head", cnt |-> 0, next_cnt |-> 0,
     rb |-> 0, sum |-> 0]

RECURSIVE InflateRun(_)
InflateRun(z) ==
    IF z.phase \in {"done", "error"} THEN z
    ELSE IF z.cnt > 0
    THEN IF Len(z.out) < kBufSize
         THEN InflateRun([z EXCEPT !.out = @ \o <<z.rb>>, !.cnt = @ - 1,
                                   !.sum = (@ + z.rb) % 256])
         ELSE z
    ELSE IF z.in = <<>> THEN z
    ELSE
    LET c == Head(z.in)
        y == [z EXCEPT !.in = Tail(@)]
    IN  CASE z.phase = "head" ->
                InflateRun([y EXCEPT !.phase = IF c = kStreamHead THEN "head2" ELSE "error"])
          [] z.phase = "head2" ->
                InflateRun([y EXCEPT !.phase = IF c = kStreamHead2 THEN "count" ELSE "error"])
          [] z.phase = "count" ->
                InflateRun(IF c = 0 THEN [y EXCEPT !.phase = "check"]
                           ELSE [y EXCEPT !.phase = "byte", !.next_cnt = c])
          [] z.phase = "byte" ->
                InflateRun([y EXCEPT !.phase = "count", !.rb = c, !.cnt = y.next_cnt])
          [] z.phase = "check" ->
                InflateRun([y EXCEPT !.phase = IF c = z.sum THEN "done" ELSE "error"])

\* inflate(strm, 0): [z, result].
Inflate(z) ==
    LET z1 == InflateRun(z)
    IN  [z |-> z1,
         result |-> IF z1.phase = "done" THEN "Z_STREAM_END"
                    ELSE IF z1.phase = "error" THEN "Z_DATA_ERROR"
                    ELSE IF Len(z1.in) = Len(z.in) /\ z1.out = z.out THEN "Z_BUF_ERROR"
                    ELSE "Z_OK"]

ZlibResultToWcxException(zlib_result) ==
    CASE zlib_result = "Z_OK" -> "OK"
      [] zlib_result = "Z_MEM_ERROR" -> "E_NO_MEMORY"
      [] zlib_result = "Z_STREAM_ERROR" -> "E_BAD_ARCHIVE"
      [] OTHER -> "E_BAD_DATA"

\* A plausible slip: a file of exactly the least size is not compressed.
EnableCompressionForFileAbove(file_size) == file_size > kMinFileSizeForCompression

EnableCompressionForFile(file_size) == file_size >= kMinFileSizeForCompression

\* ------------------------------------------------------------------------
\* PackingArchive::PackFileContent.  src is the content of the source file;
\* the result is [a, out_bytes_written, out_bytes_read].
\* ------------------------------------------------------------------------
\* fread(src_buf_ptr, 1, kBufSize, src_file) at source offset spos.
SrcChunk(src, spos) == SubSeq(src, spos + 1, Min(spos + kBufSize, Len(src)))

\* A plausible slip: the source is declared exhausted as soon as a read
\* returns anything, so only the first buffer is ever packed.
SrcEndReachedAlways(bytes_read) == TRUE

\* bytes_read < kBufSize with feof(src_file) set.
SrcEndReached(bytes_read) == bytes_read < kBufSize

\* The rest of an iteration, r being what deflate returned:
\* [a, z, spos, is_src_end, out_bytes_written, out_bytes_read, again].
EncodeDeflated(a, r, spos1, end1, written, read1, refill) ==
    LET bytes_to_write == Len(r.z.out)
        a1 == Fwrite(a, r.z.out)
        written1 == written + bytes_to_write
        made_progress == refill \/ bytes_to_write > 0
        left(b, w, again) ==
            [a |-> b, z |-> r.z, spos |-> spos1, is_src_end |-> end1,
             out_bytes_written |-> w, out_bytes_read |-> read1, again |-> again]
    IN  IF r.result \notin {"Z_OK", "Z_STREAM_END"}
        THEN left(Throw(a, ZlibResultToWcxException(r.result)), written, FALSE)
        ELSE IF r.result = "Z_STREAM_END" THEN left(a1, written1, FALSE)
        ELSE IF ~made_progress THEN left(Throw(a1, "E_BAD_ARCHIVE"), written1, FALSE)
        ELSE left(a1, written1, TRUE)

\* An iteration of the loop of the compressed branch.
EncodeStep(a, z, src, spos, is_src_end, written, read, lazy) ==
    LET refill == z.in = <<>> /\ ~is_src_end
        chunk == SrcChunk(src, spos)
        end1 == IF refill THEN SrcEndReached(Len(chunk)) ELSE is_src_end
        z1 == IF refill THEN [z EXCEPT !.in = chunk, !.out = <<>>]
              ELSE [z EXCEPT !.out = <<>>]
    IN  EncodeDeflated(a, Deflate(z1, end1, lazy),
                       IF refill THEN spos + Len(chunk) ELSE spos, end1, written,
                       IF refill THEN read + Len(chunk) ELSE read, refill)

RECURSIVE EncodeLoop(_, _, _, _, _, _, _, _)
EncodeLoop(a, z, src, spos, is_src_end, written, read, lazy) ==
    LET s == EncodeStep(a, z, src, spos, is_src_end, written, read, lazy)
    IN  IF s.again
        THEN EncodeLoop(s.a, s.z, src, s.spos, s.is_src_end, s.out_bytes_written,
                        s.out_bytes_read, lazy)
        ELSE [a |-> s.a, out_bytes_written |-> s.out_bytes_written,
              out_bytes_read |-> s.out_bytes_read]

\* The do-while of the uncompressed branch.
RECURSIVE CopyInLoop(_, _, _, _)
CopyInLoop(a, src, spos, read) ==
    LET chunk == SrcChunk(src, spos)
        bytes_read == Len(chunk)
        a1 == Fwrite(a, chunk)
    IN  IF bytes_read = kBufSize
        THEN CopyInLoop(a1, src, spos + bytes_read, read + bytes_read)
        ELSE [a |-> a1, out_bytes_written |-> read + bytes_read,
              out_bytes_read |-> read + bytes_read]

\* The final comparison of out_bytes_read with src_file_size.
CheckBytesRead(res, src_file_size) ==
    IF res.a.err = "OK" /\ res.out_bytes_read # src_file_size
    THEN [res EXCEPT !.a = Throw(res.a, "E_EREAD")]
    ELSE res

PackFileContent(a, src, src_file_size, enable_compression, lazy) ==
    IF enable_compression
    THEN CheckBytesRead(EncodeLoop(a, NewDeflate, src, 0, FALSE, 0, 0, lazy), src_file_size)
    ELSE IF src_file_size = 0
    THEN [a |-> a, out_bytes_written |-> 0, out_bytes_read |-> 0]
    ELSE CheckBytesRead(CopyInLoop(a, src, 0, 0), src_file_size)

\* ------------------------------------------------------------------------
\* ReadingArchive::UnpackFileContent.  dst is the content of the destination
\* file so far; the result is [a, dst].
\* ------------------------------------------------------------------------
\* A plausible slip: a whole buffer is read whatever is left of the payload.
BytesToReadWholeBuffer(src_bytes_left) == kBufSize

\* std::min<uint64_t>(src_bytes_left, kBufSize); a negative number stands
\* for an unsigned one from 2^64 - 2^31 on.
BytesToRead(src_bytes_left) ==
    IF src_bytes_left < 0 THEN kBufSize ELSE Min(src_bytes_left, kBufSize)

\* The rest of an iteration, r being what inflate returned:
\* [a, z, dst, src_bytes_left, total, again].
DecodeInflated(a1, r, dst, left1, total_bytes_written, refill) ==
    LET dst1 == dst \o r.z.out
        total1 == total_bytes_written + Len(r.z.out)
        made_progress == refill \/ Len(r.z.out) > 0
        a2 == Report(a1)
        left(b, d, t, again) ==
            [a |-> b, z |-> r.z, dst |-> d, src_bytes_left |-> left1, total |-> t,
             again |-> again]
    IN  IF r.result \notin {"Z_OK", "Z_STREAM_END"}
        THEN left(Throw(a1, ZlibResultToWcxException(r.result)), dst,
                  total_bytes_written, FALSE)
        ELSE IF a2.err # "OK" THEN left(a2, dst1, total1, FALSE)
        ELSE IF r.result = "Z_STREAM_END" THEN left(a2, dst1, total1, FALSE)
        ELSE IF ~made_progress THEN left(Throw(a2, "E_BAD_ARCHIVE"), dst1, total1, FALSE)
        ELSE left(a2, dst1, total1, TRUE)

\* An iteration of the loop of the compressed branch.
DecodeStep(a, z, dst, src_bytes_left, total_bytes_written) ==
    LET refill == z.in = <<>> /\ src_bytes_left # 0
        bytes_to_read == BytesToRead(src_bytes_left)
        chunk == FreadBytes(a, bytes_to_read)
        read == FreadAdvance(a, bytes_to_read)
        a1 == IF ~refill THEN a
              ELSE IF Len(chunk) < bytes_to_read THEN read
              ELSE BytesProcessed(read, Len(chunk))
        z1 == IF refill THEN [z EXCEPT !.in = chunk, !.out = <<>>]
              ELSE [z EXCEPT !.out = <<>>]
    IN  IF refill /\ Len(chunk) < bytes_to_read
        THEN [a |-> Throw(a1, "E_EREAD"), z |-> z, dst |-> dst,
              src_bytes_left |-> src_bytes_left, total |-> total_bytes_written,
              again |-> FALSE]
        ELSE DecodeInflated(a1, Inflate(z1), dst,
                            IF refill THEN src_bytes_left - Len(chunk) ELSE src_bytes_left,
                            total_bytes_written, refill)

RECURSIVE DecodeLoop(_, _, _, _, _)
DecodeLoop(a, z, dst, src_bytes_left, total_bytes_written) ==
    LET s == DecodeStep(a, z, dst, src_bytes_left, total_bytes_written)
    IN  IF s.again THEN DecodeLoop(s.a, s.z, s.dst, s.src_bytes_left, s.total)
        ELSE [a |-> s.a, dst |-> s.dst, total |-> s.total]

RECURSIVE CopyOutLoop(_, _, _)
CopyOutLoop(a, dst, bytes_left) ==
    IF bytes_left = 0 THEN [a |-> a, dst |-> dst]
    ELSE LET bytes_to_process == BytesToRead(bytes_left)
             chunk == FreadBytes(a, bytes_to_process)
             a1 == FreadAdvance(a, bytes_to_process)
             a2 == Report(BytesProcessed(a1, Len(chunk)))
         IN  IF Len(chunk) < bytes_to_process
             THEN [a |-> Throw(a1, "E_EREAD"), dst |-> dst]
             ELSE IF a2.err # "OK" THEN [a |-> a2, dst |-> dst \o chunk]
             ELSE CopyOutLoop(a2, dst \o chunk, bytes_left - bytes_to_process)

\* The final comparison of total_bytes_written with dst_file_size.
CheckBytesWritten(d, dst_file_size) ==
    IF d.a.err = "OK" /\ d.total # dst_file_size
    THEN [a |-> Throw(d.a, "E_BAD_ARCHIVE"), dst |-> d.dst]
    ELSE [a |-> d.a, dst |-> d.dst]

UnpackFileContent(a, dst, dst_file_size, src_file_size, enable_compression) ==
    IF enable_compression
    THEN CheckBytesWritten(DecodeLoop(a, NewInflate, dst, src_file_size, 0), dst_file_size)
    ELSE CopyOutLoop(a, dst, src_file_size)

\* ------------------------------------------------------------------------
\* The source tree the host packs from: a directory "A" holding the files
\* "A\b" and "A\c", and a file "b" next to it.  fs is the state of the tree:
\* fs.data[p] the content of file p, fs.gone the paths deleted so far.
\* ------------------------------------------------------------------------
pA == <<65>>
pAb == <<65, 92, 98>>
pAc == <<65, 92, 99>>
pb == <<98>>
SrcFiles == {pAb, pAc, pb}
SrcDirs == {pA}

kFileTime == 1517322272          \* some DOS date/time of a source file

IsPrefixDir(dir, p) ==
    Len(p) > Len(dir) + 1 /\ SubSeq(p, 1, Len(dir)) = dir /\ IsSep(p[Len(dir) + 1])

SrcExists(fs, p) == p \in (SrcFiles \cup SrcDirs) \ fs.gone
SrcIsDir(fs, p) == p \in SrcDirs
SrcDirEmpty(fs, p) == \A q \in (SrcFiles \cup SrcDirs) \ fs.gone : ~IsPrefixDir(p, q)

\* PackingArchive::GetFileAttributes: [ok, unp_size, attributes, time].
GetFileAttributes(fs, full_path) ==
    IF ~SrcExists(fs, full_path)
    THEN [ok |-> FALSE, unp_size |-> 0, attributes |-> 0, time |-> 0]
    ELSE IF SrcIsDir(fs, full_path)
    THEN [ok |-> TRUE, unp_size |-> 0, attributes |-> FILE_ATTR_DIRECTORY,
          time |-> kFileTime]
    ELSE [ok |-> TRUE, unp_size |-> Len(fs.data[full_path]),
          attributes |-> FILE_ATTR_ARCHIVE, time |-> kFileTime]

WriteEntryHeader(a, header, path) == Fwrite(Fwrite(a, HeaderBytes(header)), PathBytes(path))

\* Plausible slips: the packed size is patched into the original-size
\* field, eight bytes further on; the offset of the field is taken from the
\* start of the file.
PatchOffsetOfUnpSize(entry_begin_offset) == entry_begin_offset + kPackSizeOffset + 8
PatchOffsetFromStart(entry_begin_offset) == kPackSizeOffset

\* entry_begin_offset + sizeof(magic) + sizeof(flags) + sizeof(attributes)
\* + sizeof(time)
PatchOffset(entry_begin_offset) == entry_begin_offset + kPackSizeOffset

\* PackingArchive::PackFile.  locked is the set of source files that cannot
\* be opened during this call; the result is [a, out_is_directory].
\* The end of PackFile, packed being what PackFileContent returned: the
\* rewrite of pack_size when the packed size differs from the original one.
ContentPacked(packed, entry_begin_offset, enable_compression_for_file) ==
    IF packed.a.err # "OK" THEN [a |-> packed.a, out_is_directory |-> FALSE]
    ELSE IF enable_compression_for_file /\ packed.out_bytes_written # packed.out_bytes_read
    THEN [a |-> SeekOrThrow(Fwrite(SeekOrThrow(packed.a, PatchOffset(entry_begin_offset),
                                               "SET"),
                                   ToLE(packed.out_bytes_written, 8)),
                            packed.a.pos, "SET"),
          out_is_directory |-> FALSE]
    ELSE [a |-> packed.a, out_is_directory |-> FALSE]

PackFile(a, fs, locked, lazy, absolute_path, archive_path) ==
    LET path == StripTrailingSlash(archive_path)
        attr == GetFileAttributes(fs, absolute_path)
        enable_compression_for_file == EnableCompressionForFile(attr.unp_size)
        entry_header ==
            EntryHeader(kEntryMagic,
                        IF enable_compression_for_file THEN kEntryFlagCompressed ELSE 0,
                        attr.attributes, attr.time, attr.unp_size, attr.unp_size,
                        Len(path))
        out_is_directory == HasFlag(attr.attributes, FILE_ATTR_DIRECTORY)
        entry_begin_offset == a.pos
        a1 == WriteEntryHeader(a, entry_header, path)
    IN  IF ~attr.ok THEN [a |-> Throw(a, "E_EREAD"), out_is_directory |-> FALSE]
        ELSE IF out_is_directory THEN [a |-> a1, out_is_directory |-> TRUE]
        ELSE IF absolute_path \in locked
             THEN [a |-> Throw(a1, "E_EOPEN"), out_is_directory |-> FALSE]
        ELSE ContentPacked(PackFileContent(a1, fs.data[absolute_path], attr.unp_size,
                                           enable_compression_for_file, lazy),
                           entry_begin_offset, enable_compression_for_file)

\* The parsing loop of PackFilesW over addList.
RECURSIVE ParseAddList(_, _)
ParseAddList(addList, save_paths) ==
    IF addList = <<>> THEN <<>>
    ELSE LET add_list_path == Head(addList)
             rest == ParseAddList(Tail(addList), save_paths)
         IN  IF save_paths \/ add_list_path[Len(add_list_path)] # kBackslash
             THEN <<StripTrailingSlash(add_list_path)>> \o rest
             ELSE rest

ArchivePathOf(subPath, relative_path, save_paths) ==
    IF save_paths THEN CombinePath(subPath, relative_path)
    ELSE CombinePath(subPath, ExtractFileName(relative_path))

\* The candidate list of PackFilesW after duplicate removal and sorting.
RelativePathsToAdd(addList, save_paths) ==
    LET parsed == ParseAddList(addList, save_paths)
        unique == IF ~save_paths THEN RemoveFileNameDuplicates(parsed) ELSE parsed
    IN  Sort(unique, TRUE)

ArchivePathsToAdd(relative_paths_to_add, subPath, save_paths) ==
    [i \in 1..Len(relative_paths_to_add) |->
        ArchivePathOf(subPath, relative_paths_to_add[i], save_paths)]

\* The progress value of the packing loop: minus the percentage of the
\* candidates before the one at index i (0-based).
PackProgress(i, count) == -CalcPercent(i, count)

\* The packing loop of PackFilesW from candidate i (1-based) on:
\* [a, path_is_directory].  The source directory is the current one, so the
\* absolute path passed to the callback is the relative path.
RECURSIVE PackLoop(_, _, _, _, _, _, _, _)
\* The rest of an iteration, r being what PackFile returned.
PackLoopPacked(r, fs, locked, lazy, relative_paths, archive_paths, i, path_is_directory) ==
    IF r.a.err # "OK" THEN [a |-> r.a, path_is_directory |-> path_is_directory]
    ELSE PackLoop(r.a, fs, locked, lazy, relative_paths, archive_paths, i + 1,
                  [path_is_directory EXCEPT ![i] = r.out_is_directory])

PackLoop(a, fs, locked, lazy, relative_paths, archive_paths, i, path_is_directory) ==
    IF i > Len(relative_paths) THEN [a |-> a, path_is_directory |-> path_is_directory]
    ELSE LET count == Len(relative_paths)
             reported == ReportDirect(PercentOf(a, count), relative_paths[i],
                                      PackProgress(i - 1, count))
         IN  IF reported.err # "OK"
             THEN [a |-> reported, path_is_directory |-> path_is_directory]
             ELSE PackLoopPacked(PackFile(reported, fs, locked, lazy, relative_paths[i],
                                          archive_paths[i]),
                                 fs, locked, lazy, relative_paths, archive_paths, i,
                                 path_is_directory)

\* The deletion at index i put before those that followed it.
DeletedFirst(i, path, rest) ==
    [rest EXCEPT !.deleted = <<[i |-> i, path |-> path]>> \o @]

\* DeleteSrcFile over the candidates in reverse order: [gone, err, deleted].
RECURSIVE DeleteSources(_, _, _, _)
DeleteSources(fs, relative_paths, path_is_directory, i) ==
    IF i = 0 THEN [gone |-> fs.gone, err |-> "OK", deleted |-> <<>>]
    ELSE LET path == relative_paths[i]
             b == IF path_is_directory[i]
                  THEN SrcExists(fs, path) /\ SrcIsDir(fs, path) /\ SrcDirEmpty(fs, path)
                  ELSE SrcExists(fs, path) /\ ~SrcIsDir(fs, path)
         IN  IF ~b THEN [gone |-> fs.gone, err |-> "E_EWRITE", deleted |-> <<>>]
             ELSE DeletedFirst(i, path,
                               DeleteSources([fs EXCEPT !.gone = @ \cup {path}],
                                             relative_paths, path_is_directory, i - 1))

\* ------------------------------------------------------------------------
\* The handlers.  arc is the archive file on disk: [exists, data].  Each
\* handler yields the state of its archive object when it returns (a), what
\* became of the archive file (arc), whether archive_file_ was opened by the
\* call (opened), and the code it returns or throws (res).
\* ------------------------------------------------------------------------
NoFile == [exists |-> FALSE, data |-> <<>>]
FileOf(data) == [exists |-> TRUE, data |-> data]

\* A plausible slip: the answer to the first report is not looked at.
FirstCalledUnchecked(called) ==
    [called.a EXCEPT !.now = @ + tickStep,
                     !.last_progress_time_ = called.a.now + tickStep]

\* The first, unconditional CallProcessDataProc(packedFile, 0) of PackFilesW
\* and DeleteFilesW with the assignment of last_progress_time_ after it,
\* called being what CallProcessDataProc returned.
FirstCalled(called) ==
    IF called.result = 0 THEN Throw(called.a, "E_EABORTED")
    ELSE [called.a EXCEPT !.now = @ + tickStep,
                          !.last_progress_time_ = called.a.now + tickStep]

FirstCall(a) == FirstCalled(CallProcessDataProc(a, packedFile, 0))

\* PackingArchive::OpenForPack on the object a: [a, created_new_archive_].
OpenForPack(arc, a) ==
    IF arc.exists
    THEN [a |-> [a EXCEPT !.f = arc.data, !.original_archive_size_ = Len(arc.data)],
          created_new_archive_ |-> FALSE]
    ELSE [a |-> Fwrite(a, kFileHeader), created_new_archive_ |-> TRUE]

\* The part of PackFilesW that is skipped for a new archive:
\* ReadAndCheckHeader, then DeleteIf.
SupersedeOld(opened, archive_paths_to_add) ==
    LET checked == ReadAndCheckHeader(opened.a)
    IN  IF opened.created_new_archive_ THEN opened.a
        ELSE IF checked.err # "OK" THEN checked
        ELSE DeleteIf(checked, "pack", archive_paths_to_add)

\* The packing of all candidates, scanned being the archive after DeleteIf.
PackAll(scanned, fs, locked, lazy, relative_paths_to_add, archive_paths_to_add) ==
    IF scanned.err # "OK" THEN [a |-> scanned, path_is_directory |-> <<>>]
    ELSE PackLoop(scanned, fs, locked, lazy, relative_paths_to_add, archive_paths_to_add, 1,
                  [i \in 1..Len(relative_paths_to_add) |-> FALSE])

\* A plausible slip: a call that fails cuts the file back to the size it had
\* when it was opened.
ClosedFileRolledBack(a) ==
    FileOf(IF a.err # "OK"
           THEN SubSeq(a.f, 1, Min(Len(a.f), a.original_archive_size_))
           ELSE a.f)

\* The archive file as the object leaves it when its UniqueFilePtr closes
\* it, on return and on a throw alike.
ClosedFile(a) == FileOf(a.f)

\* The return of PackFilesW, a being the object after the packing loop and
\* removed what the deletion of the sources did.
PackFilesRemoved(a, removed, archive_paths_to_add) ==
    [a |-> [a EXCEPT !.deleted = removed.deleted], arc |-> ClosedFile(a),
     gone |-> removed.gone, opened |-> TRUE, res |-> removed.err,
     archive_paths |-> archive_paths_to_add]

\* A plausible slip: the sources are deleted whether or not the packing
\* loop came to its end.
PackFilesLoopedAnyway(looped, fs, relative_paths_to_add, archive_paths_to_add, delete_source_files) ==
    PackFilesRemoved(
        looped.a,
        IF delete_source_files
           /\ Len(looped.path_is_directory) = Len(relative_paths_to_add)
        THEN DeleteSources(fs, relative_paths_to_add, looped.path_is_directory,
                           Len(relative_paths_to_add))
        ELSE [gone |-> fs.gone, err |-> looped.a.err, deleted |-> <<>>],
        archive_paths_to_add)

\* The PK_PACK_MOVE_FILES part and the return, looped being the outcome of
\* the packing loop.
PackFilesLooped(looped, fs, relative_paths_to_add, archive_paths_to_add, delete_source_files) ==
    PackFilesRemoved(
        looped.a,
        IF looped.a.err = "OK" /\ delete_source_files
        THEN DeleteSources(fs, relative_paths_to_add, looped.path_is_directory,
                           Len(relative_paths_to_add))
        ELSE [gone |-> fs.gone, err |-> looped.a.err, deleted |-> <<>>],
        archive_paths_to_add)

PackFilesW(arc, fs, subPath, addList, save_paths, delete_source_files, cancelAt, locked, lazy) ==
    LET first == FirstCall(NewArchive(<<>>, cancelAt))
        relative_paths_to_add == RelativePathsToAdd(addList, save_paths)
        archive_paths_to_add == ArchivePathsToAdd(relative_paths_to_add, subPath, save_paths)
    IN  IF first.err # "OK"
        THEN [a |-> first, arc |-> arc, gone |-> fs.gone, opened |-> FALSE,
              res |-> first.err, archive_paths |-> archive_paths_to_add]
        ELSE PackFilesLooped(
                 PackAll(SupersedeOld(OpenForPack(arc, first),
                                      archive_paths_to_add),
                         fs, locked, lazy, relative_paths_to_add, archive_paths_to_add),
                 fs, relative_paths_to_add, archive_paths_to_add, delete_source_files)

\* The normalisation of one deleteList item in DeleteFilesW.
EndsWithWildcard(path) ==
    Len(path) >= 3 /\ SubSeq(path, Len(path) - 2, Len(path)) = <<kStar, kDot, kStar>>

NormalizeDeletePath(item) ==
    LET cut == IF EndsWithWildcard(item) THEN SubSeq(item, 1, Len(item) - 3) ELSE item
    IN  UpperCase(StripTrailingSlash(cut))

PathsToDelete(deleteList) ==
    Sort([i \in 1..Len(deleteList) |-> NormalizeDeletePath(deleteList[i])], FALSE)

\* DeletingArchive::OpenForDelete on an existing file.
OpenForDelete(arc, a) ==
    [a EXCEPT !.f = arc.data, !.original_archive_size_ = Len(arc.data)]

\* The return of DeleteFilesW, scanned being the archive after DeleteIf.
DeleteFilesScanned(scanned) ==
    [a |-> scanned, arc |-> ClosedFile(scanned), opened |-> TRUE, res |-> scanned.err]

DeleteFilesW(arc, deleteList, cancelAt) ==
    LET first == FirstCall(NewArchive(<<>>, cancelAt))
        paths_to_delete == PathsToDelete(deleteList)
        checked == ReadAndCheckHeader(OpenForDelete(arc, first))
    IN  IF first.err # "OK"
        THEN [a |-> first, arc |-> arc, opened |-> FALSE, res |-> first.err]
        ELSE IF paths_to_delete = <<>>
        THEN [a |-> first, arc |-> arc, opened |-> FALSE, res |-> "OK"]
        ELSE IF ~arc.exists
        THEN [a |-> first, arc |-> arc, opened |-> FALSE, res |-> "E_ECREATE"]
        ELSE DeleteFilesScanned(IF checked.err # "OK" THEN checked
                                ELSE DeleteIf(checked, "erase", paths_to_delete))

\* A plausible slip: the probe accepts every file it can open.
CanYouHandleThisFileWOpened(arc) == [opened |-> arc.exists, res |-> arc.exists]

\* HeaderCheckingArchive::CanYouHandleThisFileW with the catch of the entry
\* point: res is the BOOL returned.
CanYouHandleThisFileW(arc) ==
    LET checked == ReadAndCheckHeader(NewArchive(arc.data, 0))
    IN  IF ~arc.exists THEN [opened |-> FALSE, res |-> FALSE]
        ELSE [opened |-> TRUE, res |-> checked.err = "OK"]

\* ReadingArchive::OpenArchiveW.
OpenArchiveW(arc, cancelAt) ==
    LET r1 == Report(NewArchive(arc.data, cancelAt))
        r2 == Report(r1)
        checked == ReadAndCheckHeader(r2)
        r3 == IF checked.err = "OK" THEN Report(checked) ELSE checked
    IN  IF r1.err # "OK" THEN [a |-> r1, opened |-> FALSE, res |-> r1.err]
        ELSE IF ~arc.exists THEN [a |-> r1, opened |-> FALSE, res |-> "E_EOPEN"]
        ELSE IF r2.err # "OK" THEN [a |-> r2, opened |-> TRUE, res |-> r2.err]
        ELSE [a |-> r3, opened |-> TRUE, res |-> r3.err]

\* A plausible slip: the content of the entry is not skipped.
SkipEntryStays(a) == a

\* The skip of the content of the current entry with its progress report,
\* in ReadHeaderExW for a deleted entry and in ProcessFileW for PK_SKIP and
\* PK_TEST.
SkipEntry(a) ==
    LET skipped == SeekPast(a, a.last_header_.pack_size)
    IN  IF skipped.err = "OK" /\ a.last_header_.pack_size # 0
        THEN Report(BytesProcessed(skipped, a.last_header_.pack_size)) ELSE skipped

\* An iteration of the loop of ReadingArchive::ReadHeaderExW, r being what
\* ReadEntryHeader returned: [a, res, again].
HeaderRead(r) ==
    LET reported == Report(r.a)
        after == SkipEntry(reported)
    IN  IF r.a.err # "OK" THEN [a |-> r.a, res |-> r.a.err, again |-> FALSE]
        ELSE IF ~r.ok THEN [a |-> r.a, res |-> "E_END_ARCHIVE", again |-> FALSE]
        ELSE IF reported.err # "OK"
        THEN [a |-> reported, res |-> reported.err, again |-> FALSE]
        ELSE IF HasFlag(reported.last_header_.flags, kEntryFlagDeleted)
        THEN [a |-> after, res |-> after.err, again |-> after.err = "OK"]
        ELSE [a |-> reported, res |-> "OK", again |-> FALSE]

\* The loop of ReadingArchive::ReadHeaderExW: [a, res].
RECURSIVE ReadHeaderLoop(_)
ReadHeaderLoop(a) ==
    LET s == HeaderRead(ReadEntryHeader(a))
    IN  IF s.again THEN ReadHeaderLoop(s.a) ELSE [a |-> s.a, res |-> s.res]

\* A plausible slip: the validation is left out.
ValidateHeaderNot(r) == r

\* The validation after the loop, r being the outcome of the loop.
ValidateHeader(r) ==
    LET h == r.a.last_header_
    IN  IF r.res # "OK" THEN r
        ELSE IF HasFlag(h.attributes, FILE_ATTR_DIRECTORY)
                /\ (h.pack_size # 0 \/ h.unp_size # 0)
        THEN [a |-> r.a, res |-> "E_BAD_ARCHIVE"]
        ELSE IF ~HasFlag(h.flags, kEntryFlagCompressed) /\ h.unp_size # h.pack_size
        THEN [a |-> r.a, res |-> "E_BAD_ARCHIVE"]
        ELSE r

ReadHeaderExW(a) == ValidateHeader(ReadHeaderLoop(a))

\* ------------------------------------------------------------------------
\* Extraction.  dst is what is found at the destination path:
\* [kind, data, attributes] with kind "none", "file" or "dir".
\* ------------------------------------------------------------------------
NoDst == [kind |-> "none", data |-> <<>>, attributes |-> 0]
DstFile(data) == [kind |-> "file", data |-> data, attributes |-> 0]
DstDir == [kind |-> "dir", data |-> <<>>, attributes |-> 0]

\* A plausible slip: the catch block deletes the file whatever was thrown.
CatchInExtractFileAll(dst, e) == IF e # "OK" THEN NoDst ELSE dst

\* The catch block of ExtractFile: DeleteFileW on E_EABORTED, then rethrow.
CatchInExtractFile(dst, e) == IF e = "E_EABORTED" THEN NoDst ELSE dst

\* SetFileAttributes and SetFileTime, best effort.
ApplyAttributes(dst, attributes) == [dst EXCEPT !.attributes = attributes]

\* A plausible slip: extraction reads the packed size where the original
\* size is meant, so the size check of the decoder compares the wrong field.
ExpectedSizePacked(h) == h.pack_size

ExpectedSize(h) == h.unp_size

\* The catch and the end of the try block of ExtractFile, unpacked being
\* what UnpackFileContent returned.
FileUnpacked(unpacked) ==
    [a |-> unpacked.a,
     dst |-> CatchInExtractFile(DstFile(unpacked.dst), unpacked.a.err)]

\* The directory and the file branch of ExtractFile.
ExtractBody(a, dstBefore) ==
    LET h == a.last_header_
        reported == Report(a)
    IN  IF HasFlag(h.attributes, FILE_ATTR_DIRECTORY)
        THEN IF dstBefore.kind # "none"
             THEN [a |-> Throw(a, "E_ECREATE"), dst |-> dstBefore]
             ELSE IF reported.err # "OK" THEN [a |-> reported, dst |-> NoDst]
             ELSE [a |-> reported, dst |-> DstDir]
        ELSE IF dstBefore.kind = "dir"
             THEN [a |-> Throw(a, "E_ECREATE"), dst |-> dstBefore]
             ELSE IF reported.err # "OK"
             THEN [a |-> reported,
                   dst |-> CatchInExtractFile(DstFile(<<>>), reported.err)]
             ELSE FileUnpacked(UnpackFileContent(reported, <<>>, ExpectedSize(h),
                                                 h.pack_size,
                                                 HasFlag(h.flags, kEntryFlagCompressed)))

\* SetFileAttributes, SetFileTime and the final progress report.
BodyDone(body) ==
    IF body.a.err # "OK" THEN body
    ELSE [a |-> Report(body.a),
          dst |-> ApplyAttributes(body.dst, body.a.last_header_.attributes)]

\* ReadingArchive::ExtractFile: [a, dst].
ExtractFile(a, dstBefore) == BodyDone(ExtractBody(a, dstBefore))

\* The return of ProcessFileW or the code it throws.
Processed(e) == [a |-> e.a, dst |-> e.dst, res |-> e.a.err]

\* ReadingArchive::ProcessFileW: [a, dst, res].
ProcessFileW(a, operation, dstBefore) ==
    IF operation \in {"PK_SKIP", "PK_TEST"}
    THEN Processed([a |-> SkipEntry(a), dst |-> dstBefore])
    ELSE Processed(ExtractFile(a, dstBefore))

\* ------------------------------------------------------------------------
\* Bounds of the model and the inputs the host may pass.
\* ------------------------------------------------------------------------
MaxPacks == 2          \* PackFilesW calls in one behaviour
MaxCancelAt == 2       \* latest progress report at which the user cancels
MaxLeaks == 1          \* archive objects that are never destroyed
MaxBuffers == 2        \* largest source file, in I/O buffers

\* File contents: n bytes made of runs of length p of two byte values.
Content(n, p) == [i \in 1..n |-> (((i - 1) \div p) % 2) + 1]

Sizes ==
    {0, kMinFileSizeForCompression - 1, kMinFileSizeForCompression,
     kMinFileSizeForCompression + 1}
        \cup {k * kBufSize + d : k \in 1..MaxBuffers, d \in {-1, 0, 1}}

\* A content that the coder packs into as many bytes as it has.
SameSizeContent == Content(kMinFileSizeForCompression - 1, 3) \o <<2>>

\* A content whose first runs fill the output buffer of the coder exactly
\* while half of the first input buffer is unread, and that half continues
\* the run.
SplitContent ==
    [i \in 1..(2 * kBufSize + 1) |-> IF i < kBufSize \div 2 /\ i % 2 = 1 THEN 1 ELSE 2]

Contents ==
    {Content(n, p) : n \in Sizes, p \in {1, 3, 40}} \cup {SameSizeContent, SplitContent}

\* What the host lists: directories carry a trailing backslash.
dA == pA \o <<kBackslash>>
pLowerA == <<97>>
Wildcard == <<kBackslash, kStar, kDot, kStar>>

\* Files found at the archive path before the plugin is first used: none, a
\* file of another format, a file too short to hold the magic.
ForeignFile == <<83, 77, 80, 65, 49, 48, 48, 66, 1, 2, 3>>
ShortFile == <<83, 77>>

\* A directory path of n code units within the archive: components of 199
\* units.
LongDir(n) == [i \in 1..n |-> IF i % 200 = 0 THEN kBackslash ELSE 100]

\* One PackFilesW call of the host.
PackInput(subPath, addList, save_paths, move, cancelAt, locked, lazy) ==
    [subPath |-> subPath, addList |-> addList, save_paths |-> save_paths,
     move |-> move, cancelAt |-> cancelAt, locked |-> locked, lazy |-> lazy]

\* The calls of the callback at which the host of the "failure" profile
\* cancels: the first one, those of the scan, those of the packing loop.
FailCancels == 0..(MaxCancelAt + 1)

\* The inputs of a profile.  "pack" has the host pack in every way, "erase"
\* erase in every way, "session" read archives in every way, and "roundtrip"
\* pack and extract source files of every content.  "progress" has it
\* register and remove callbacks, cancel at any call of them, and run on
\* clocks of several speeds.  "move" has it pack with PK_PACK_MOVE_FILES
\* a directory with all or some of its files, in both modes, cancelled or
\* not, with a source file that cannot be opened or without.  "failure"
\* has packs and erasures fail in every way the source tree and the host
\* can make them fail: cancelled at any call of the callback, a source file
\* that cannot be opened, sources that an earlier move deleted.
PackInputs(profile) ==
    CASE profile = "pack" ->
           {PackInput(<<>>, addList, save_paths, FALSE, 0, {}, FALSE) :
                addList \in {<<pb>>, <<pAc, pb>>}, save_paths \in BOOLEAN}
           \cup {PackInput(<<>>, <<pAc, pb>>, TRUE, FALSE, cancelAt, {}, FALSE) :
                     cancelAt \in 1..MaxCancelAt}
           \cup {PackInput(<<>>, <<dA, pAb>>, TRUE, FALSE, 0, {}, FALSE),
                 PackInput(pLowerA, <<pb>>, TRUE, FALSE, 0, {}, FALSE),
                 PackInput(<<>>, <<dA, pAb>>, TRUE, TRUE, 0, {}, TRUE),
                 PackInput(<<>>, <<pAc, pb>>, TRUE, FALSE, 0, {pAc}, FALSE)}
      [] profile = "erase" ->
           {PackInput(pLowerA, <<pAc, pb>>, TRUE, FALSE, 0, {}, FALSE),
            PackInput(<<>>, <<dA, pAb>>, TRUE, FALSE, 0, {}, FALSE),
            PackInput(<<>>, <<pb>>, TRUE, FALSE, 0, {}, FALSE)}
      [] profile = "session" ->
           {PackInput(<<>>, addList, TRUE, FALSE, 0, {}, FALSE) :
                addList \in {<<pAc, pb>>, <<dA, pAb>>}}
      [] profile = "progress" ->
           {PackInput(<<>>, <<pAc, pb>>, TRUE, FALSE, cancelAt, {}, FALSE) :
                cancelAt \in 0..MaxCancelAt}
      [] profile = "move" ->
           {PackInput(<<>>, addList, save_paths, TRUE, cancelAt, locked, FALSE) :
                addList \in {<<pAc, dA, pAb>>, <<dA, pAb>>, <<pAc, pb>>},
                save_paths \in BOOLEAN, cancelAt \in 0..MaxCancelAt,
                locked \in {{}, {pAc}}}
      [] profile = "failure" ->
           {PackInput(<<>>, <<pAc, dA, pAb>>, TRUE, FALSE, cancelAt, {}, FALSE) :
                cancelAt \in FailCancels}
           \cup {PackInput(<<>>, <<pAc, dA, pAb>>, TRUE, FALSE, 0, {pAc}, FALSE),
                 PackInput(<<>>, <<pAc, dA, pAb>>, TRUE, TRUE, 0, {}, FALSE)}
      [] profile = "decode" ->
           {PackInput(<<>>, addList, TRUE, FALSE, 0, {}, FALSE) :
                addList \in {<<pb>>, <<dA, pAc, pb>>}}
      [] profile = "names" ->
           {PackInput(subPath, <<pb>>, TRUE, FALSE, 0, {}, FALSE) :
                subPath \in {<<>>, LongDir(kMaxFileNameLen - 3),
                             LongDir(kMaxFileNameLen - 2)}}
      [] OTHER ->
           {PackInput(<<>>, addList, TRUE, FALSE, 0, {}, lazy) :
                addList \in {<<pb>>, <<pAb, pb>>}, lazy \in BOOLEAN}

DeleteLists(profile) ==
    CASE profile = "erase" ->
           {<<>>, <<pb>>, <<pLowerA \o Wildcard>>, <<CombinePath(pLowerA, pAc), pAb>>,
            <<CombinePath(pLowerA, pA) \o Wildcard, pb>>}
      [] profile = "session" -> {<<pb>>, <<pA \o Wildcard>>}
      [] profile \in {"pack", "progress"} -> {<<pb>>}
      [] profile = "failure" -> {<<pA>>}
      [] OTHER -> {<<pAb>>}

DeleteCancels(profile) ==
    IF profile \in {"erase", "progress"} THEN 0..MaxCancelAt
    ELSE IF profile = "failure" THEN FailCancels
    ELSE {0}
OpenModes(profile) ==
    IF profile = "session" THEN {"PK_OM_LIST", "PK_OM_EXTRACT"}
    ELSE IF profile \in {"roundtrip", "progress", "decode"} THEN {"PK_OM_EXTRACT"}
    ELSE {"PK_OM_LIST"}
SessionCancels(profile) ==
    IF profile \in {"session", "progress", "decode"} THEN 0..MaxCancelAt ELSE {0}
Operations(profile) ==
    CASE profile = "session" -> {"PK_SKIP", "PK_TEST", "PK_EXTRACT"}
      [] profile = "roundtrip" -> {"PK_EXTRACT"}
      [] profile = "progress" -> {"PK_SKIP", "PK_EXTRACT"}
      [] profile = "decode" -> {"PK_SKIP", "PK_TEST", "PK_EXTRACT"}
      [] OTHER -> {"PK_SKIP"}
\* The callbacks the host registers (TRUE for a non-null pointer) and the
\* speeds of its clock.
Procs(profile) == IF profile = "progress" THEN BOOLEAN ELSE {TRUE}
\* Whether it passes the handle of the session when registering.
WithHandle(profile) == IF profile \in {"progress", "session"} THEN BOOLEAN ELSE {FALSE}
TickSteps(profile) ==
    IF profile = "progress"
    THEN {0, kProgressUpdateIntervalMilliseconds \div 2,
          kProgressUpdateIntervalMilliseconds, kProgressUpdateIntervalMilliseconds + 1}
    ELSE {kProgressUpdateIntervalMilliseconds + 1}
DstBefore(profile) == IF profile = "session" THEN {NoDst, DstDir} ELSE {NoDst}

\* ------------------------------------------------------------------------
\* State.
\*   arc      the archive file on disk
\*   fs       the source tree
\*   session  the ReadingArchive behind the handle the host holds; seen is
\*            what ReadHeaderExW has returned to the host since it was opened
\*   handles  FILE handles open on the archive file
\*   packs    PackFilesW calls so far
\*   clean    the archive was created by PackFilesW and only successful
\*            PackFilesW calls have touched it
\*   last     the last call, its arguments and what it returned
\*   profile  the input profile of the behaviour
\*   util     argument and result of the last utility call (SpecUtil)
\* ------------------------------------------------------------------------
VARIABLES arc, fs, session, handles, packs, clean, last, profile, util, loop

vars == <<arc, fs, session, handles, packs, clean, last, profile, util, loop,
          g_global_process_data_proc, tickStep, packing>>

ClosedSession ==
    [phase |-> "closed", mode |-> "PK_OM_LIST", pos |-> 0,
     last_header_ |-> ZeroHeader, last_header_path_ |-> <<>>, entry |-> 0,
     seen |-> <<>>,
     process_data_proc_ |-> FALSE, last_progress_time_ |-> 0,
     bytes_processed_since_previous_progress_ |-> 0,
     now |-> Uptime, invoked |-> <<>>]

\* The members of the object that a call of the session leaves changed; of
\* the calls of the callback the last one is remembered.
SessionAfter(s, a) ==
    [s EXCEPT !.pos = a.pos, !.last_progress_time_ = a.last_progress_time_,
              !.bytes_processed_since_previous_progress_ =
                  a.bytes_processed_since_previous_progress_,
              !.now = a.now,
              !.invoked = IF a.invoked = <<>> THEN <<>>
                          ELSE <<a.invoked[Len(a.invoked)]>>]

NoCall ==
    [op |-> "none", res |-> "OK", arg |-> <<>>, how |-> "", w |-> {}, over |-> {},
     rd |-> {}, dst |-> NoDst, entry |-> 0, pos |-> 0, n |-> 0, invoked |-> <<>>,
     deleted |-> <<>>, asserted |-> FALSE, bytes_processed |-> 0]

Call(op, res, arg, how, a, dst, entry) ==
    [op |-> op, res |-> res, arg |-> arg, how |-> how, w |-> a.w, over |-> a.over,
     rd |-> a.rd, dst |-> dst,
     entry |-> entry, pos |-> a.pos, n |-> a.n, invoked |-> a.invoked,
     deleted |-> a.deleted, asserted |-> a.asserted,
     bytes_processed |-> a.bytes_processed_since_previous_progress_]

SrcData(b) == [p \in SrcFiles |->
                 CASE p = pAb -> Content(kMinFileSizeForCompression, 40)
                   [] p = pAc -> <<7, 7, 7>>
                   [] p = pb -> b]

\* No PackFilesW call in another thread.
NoPacking ==
    [phase |-> "none", n |-> 0, cancelled |-> FALSE, res |-> "OK", arc |-> NoFile]

\* No loop is followed step by step.
NoLoop == [kind |-> "none", done |-> TRUE, seen |-> {}, revisited |-> FALSE]

InitCalls ==
    /\ g_global_process_data_proc = FALSE
    /\ packing = NoPacking
    /\ session = ClosedSession
    /\ handles = 0
    /\ packs = 0
    /\ clean = FALSE
    /\ last = NoCall

InitCommon ==
    /\ loop = NoLoop
    /\ InitCalls

NoUtil == [paths |-> <<>>, result |-> <<>>, called |-> FALSE]

InitProfile(p) ==
    /\ InitCommon
    /\ util = NoUtil
    /\ profile = p
    /\ tickStep \in TickSteps(p)
    /\ arc \in {NoFile, FileOf(ForeignFile), FileOf(ShortFile)}
    /\ fs = [data |-> SrcData(Content(kMinFileSizeForCompression + 1, 1)), gone |-> {}]

InitMove == InitProfile("move")

InitFailure ==
    /\ InitCommon
    /\ profile = "failure"
    /\ tickStep \in TickSteps("failure")
    /\ util = NoUtil
    /\ arc = NoFile
    /\ fs = [data |-> SrcData(Content(kMinFileSizeForCompression + 1, 1)), gone |-> {}]

InitRoundTrip ==
    /\ InitCommon
    /\ profile = "roundtrip"
    /\ tickStep \in TickSteps("roundtrip")
    /\ util = NoUtil
    /\ arc = NoFile
    /\ \E b \in Contents : fs = [data |-> SrcData(b), gone |-> {}]

\* ------------------------------------------------------------------------
\* Files that no pack wrote: the file magic, possibly one sound record, then
\* one record whose fields take every combination of flags, attributes and
\* sizes; or a wrong entry magic; or a declared path length of 0, the
\* largest accepted and one more; or the record cut short after some bytes.
\* Also files whose first eight bytes are not the file magic.
\* ------------------------------------------------------------------------
CraftedRecord(magic, flags, attributes, pack_size, unp_size, path_len, path_units) ==
    HeaderBytes(EntryHeader(magic, flags, attributes, kFileTime, pack_size, unp_size,
                            path_len))
        \o [i \in 1..(2 * path_units) |-> IF i % 2 = 1 THEN 100 ELSE 0] \o Zeros(pack_size)

SoundRecord == CraftedRecord(kEntryMagic, 0, FILE_ATTR_ARCHIVE, 2, 2, 1, 1)

CraftedSizes == {<<0, 0>>, <<2, 2>>, <<2, 3>>, <<0, 2>>}

CraftedRecords ==
    {CraftedRecord(kEntryMagic, flags, attributes, sz[1], sz[2], 1, 1) :
        flags \in {0, kEntryFlagCompressed, kEntryFlagDeleted},
        attributes \in {FILE_ATTR_ARCHIVE, FILE_ATTR_DIRECTORY},
        sz \in CraftedSizes}
      \cup {CraftedRecord(kEntryMagic + 1, 0, FILE_ATTR_ARCHIVE, 2, 2, 1, 1)}
      \cup {CraftedRecord(kEntryMagic, 0, FILE_ATTR_ARCHIVE, 0, 0, n[1], n[2]) :
               n \in {<<0, 0>>, <<2, 2>>, <<2, 1>>, <<kMaxFileNameLen - 1, kMaxFileNameLen - 1>>,
                      <<kMaxFileNameLen, kMaxFileNameLen>>}}
      \cup {SubSeq(SoundRecord, 1, k) : k \in {0, 1, 3, 4, kHeaderSize - 1, kHeaderSize,
                                             kHeaderSize + 1}}

CraftedFiles ==
    {kFileHeader \o first \o rec : first \in {<<>>, SoundRecord}, rec \in CraftedRecords}
        \cup {ForeignFile, ShortFile, [kFileHeader EXCEPT ![1] = 115] \o SoundRecord}

InitCorrupt ==
    /\ InitCommon
    /\ profile = "corrupt"
    /\ tickStep \in TickSteps("corrupt")
    /\ util = NoUtil
    /\ arc \in {FileOf(f) : f \in CraftedFiles}
    /\ fs = [data |-> SrcData(Content(kMinFileSizeForCompression + 1, 1)), gone |-> {}]

\* ------------------------------------------------------------------------
\* Files with one compressed record whose payload no pack wrote: a sound
\* stream, the stream cut short, with a wrong checksum, with a wrong head,
\* followed by a few or many bytes that do not belong to it, and a sound
\* stream under a header that declares another original size.
\* ------------------------------------------------------------------------
RECURSIVE RunsOf(_)
RunsOf(x) ==
    IF x = <<>> THEN <<>>
    ELSE LET same == CHOOSE k \in 1..Len(x) :
                         /\ \A i \in 1..k : x[i] = x[1]
                         /\ k = Len(x) \/ x[k + 1] # x[1]
         IN  <<same, x[1]>> \o RunsOf(SubSeq(x, same + 1, Len(x)))

RECURSIVE SumOf(_)
SumOf(x) == IF x = <<>> THEN 0 ELSE (Head(x) + SumOf(Tail(x))) % 256

StreamOf(x) == <<kStreamHead, kStreamHead2>> \o RunsOf(x) \o <<0, SumOf(x)>>

StreamRecord(payload, unp_size) ==
    HeaderBytes(EntryHeader(kEntryMagic, kEntryFlagCompressed, FILE_ATTR_ARCHIVE, kFileTime,
                            Len(payload), unp_size, 1))
        \o <<100, 0>> \o payload

ShortRuns == Content(kBufSize + 1, 1)
LongRun == Content(2 * kBufSize + 1, 40)

CraftedStreams ==
    LET s == StreamOf(ShortRuns)
    IN  {<<s, Len(ShortRuns) + d>> : d \in {-1, 0, 1}}
          \cup {<<StreamOf(LongRun), Len(LongRun) + d>> : d \in {-1, 0}}
          \cup {<<SubSeq(s, 1, k), Len(ShortRuns)>> :
                    k \in {0, 1, 3, kBufSize, Len(s) - 2, Len(s) - 1}}
          \cup {<<[s EXCEPT ![Len(s)] = (@ + 1) % 256], Len(ShortRuns)>>,
                <<[s EXCEPT ![2] = 0], Len(ShortRuns)>>,
                <<s \o <<9, 9>>, Len(ShortRuns)>>,
                <<s \o Zeros(kBufSize), Len(ShortRuns)>>}

\* Files whose only record declares sizes of 2^64 - 1, live or deleted: the
\* skip of its content moves the cursor one byte back.  And one whose
\* record declares 2^64 - 39: the skip would move the cursor to before the
\* begin of the file.
HugeSizeFiles ==
    {kFileHeader \o CraftedRecord(kEntryMagic, flags, FILE_ATTR_ARCHIVE, -1, -1, 1, 1) :
         flags \in {0, kEntryFlagDeleted}}
      \cup {kFileHeader \o CraftedRecord(kEntryMagic, 0, FILE_ATTR_ARCHIVE, -39, -39, 1, 1)}

InitProgress ==
    /\ InitCommon
    /\ profile = "progress"
    /\ tickStep \in TickSteps("progress")
    /\ util = NoUtil
    /\ arc \in {NoFile} \cup {FileOf(f) : f \in HugeSizeFiles}
    /\ fs = [data |-> SrcData(Content(kMinFileSizeForCompression + 1, 1)), gone |-> {}]

\* A record with a sound stream, the file ending two bytes before the
\* stream does.
CutStreamRecord ==
    LET r == StreamRecord(StreamOf(ShortRuns), Len(ShortRuns))
    IN  SubSeq(r, 1, Len(r) - 2)

InitDecode ==
    /\ InitCommon
    /\ profile = "decode"
    /\ tickStep \in TickSteps("decode")
    /\ util = NoUtil
    /\ arc \in {FileOf(kFileHeader \o StreamRecord(c[1], c[2])) : c \in CraftedStreams}
                \cup {FileOf(kFileHeader \o CutStreamRecord)}
    /\ fs = [data |-> SrcData(Content(kMinFileSizeForCompression + 1, 1)), gone |-> {}]

\* The archive object of the session, reading the file on disk.
SessionArchive(cancelAt) ==
    [NewArchive(arc.data, cancelAt) EXCEPT
         !.pos = session.pos, !.last_header_ = session.last_header_,
         !.last_header_path_ = session.last_header_path_,
         !.process_data_proc_ = session.process_data_proc_,
         !.last_progress_time_ = session.last_progress_time_,
         !.bytes_processed_since_previous_progress_ =
             session.bytes_processed_since_previous_progress_,
         !.now = session.now, !.invoked = session.invoked]

\* An archive object made with new and deleted only by CloseArchive keeps
\* its FILE open; one held by a unique_ptr closes it when the entry point
\* returns.
HandlesAfter(h, opened, destroyed) == IF opened /\ ~destroyed THEN h + 1 ELSE h

\* ------------------------------------------------------------------------
\* Actions: one per exported entry point.
\* ------------------------------------------------------------------------
OpenArchiveReturns(mode, r) ==
    /\ r.res = "OK" \/ ~r.opened \/ handles < MaxLeaks
    /\ session' = IF r.res = "OK"
                  THEN SessionAfter([ClosedSession EXCEPT !.phase = "ready",
                                                          !.mode = mode], r.a)
                  ELSE ClosedSession
    /\ handles' = HandlesAfter(handles, r.opened, FALSE)
    /\ last' = Call("open", r.res, <<>>, mode, r.a, NoDst, 0)

OpenArchive(mode, cancelAt) ==
    /\ session.phase = "closed"
    /\ OpenArchiveReturns(mode, OpenArchiveW(arc, cancelAt))
    /\ UNCHANGED <<arc, fs, packs, clean, profile, util, loop,
                   g_global_process_data_proc, tickStep, packing>>

CloseArchive ==
    /\ session.phase # "closed"
    /\ session' = ClosedSession
    /\ handles' = handles - 1
    /\ last' = Call("close", "OK", <<>>, "", NewArchive(<<>>, 0), NoDst, 0)
    /\ UNCHANGED <<arc, fs, packs, clean, profile, util, loop,
                   g_global_process_data_proc, tickStep, packing>>

ReadHeaderReturns(r) ==
    LET entry == IF r.res = "OK"
                 THEN r.a.pos - kHeaderSize - 2 * r.a.last_header_.path_len
                 ELSE 0
    IN  /\ session' = [SessionAfter(session, r.a) EXCEPT
                           !.phase = IF r.res = "OK" THEN "entry" ELSE "done",
                           !.last_header_ = r.a.last_header_,
                           !.last_header_path_ = r.a.last_header_path_,
                           !.entry = entry,
                           !.seen = IF r.res = "OK"
                                    THEN @ \o <<[off |-> entry,
                                                 path |-> r.a.last_header_path_]>>
                                    ELSE @]
        /\ last' = Call("header", r.res,
                        IF r.res = "OK" THEN r.a.last_header_path_ ELSE <<>>,
                        "", r.a, NoDst, entry)

ReadHeader(cancelAt) ==
    /\ session.phase = "ready"
    /\ ReadHeaderReturns(ReadHeaderExW(SessionArchive(cancelAt)))
    /\ UNCHANGED <<arc, fs, handles, packs, clean, profile, util, loop,
                   g_global_process_data_proc, tickStep, packing>>

ProcessFileReturns(operation, r) ==
    /\ session' = [SessionAfter(session, r.a) EXCEPT
                       !.phase = IF r.res = "OK" THEN "ready" ELSE "done"]
    /\ last' = Call("process", r.res, session.last_header_path_, operation, r.a,
                    r.dst, session.entry)

ProcessFile(operation, dstBefore, cancelAt) ==
    /\ session.phase = "entry"
    /\ operation # "PK_EXTRACT" => dstBefore = NoDst
    /\ ProcessFileReturns(operation,
                          ProcessFileW(SessionArchive(cancelAt), operation, dstBefore))
    /\ UNCHANGED <<arc, fs, handles, packs, clean, profile, util, loop,
                   g_global_process_data_proc, tickStep, packing>>

DistinctPaths(paths) ==
    \A i, j \in 1..Len(paths) : i # j => ~StricmpEq(paths[i], paths[j])

PackFilesReturns(in, r) ==
    /\ arc' = r.arc
    /\ fs' = [fs EXCEPT !.gone = r.gone]
    /\ handles' = HandlesAfter(handles, r.opened, TRUE)
    /\ clean' = (r.res = "OK" /\ (clean \/ ~arc.exists)
                 /\ DistinctPaths(r.archive_paths))
    /\ last' = Call("pack", r.res, r.archive_paths,
                    IF in.save_paths THEN "save_paths" ELSE "flatten",
                    r.a, NoDst, 0)

PackFiles(in) ==
    /\ session.phase = "closed"
    /\ packs < MaxPacks
    /\ PackFilesReturns(in, PackFilesW(arc, fs, in.subPath, in.addList, in.save_paths,
                                       in.move, in.cancelAt, in.locked, in.lazy))
    /\ packs' = packs + 1
    /\ UNCHANGED <<session, profile, util, loop,
                   g_global_process_data_proc, tickStep, packing>>

DeleteFilesReturns(deleteList, r) ==
    /\ arc' = r.arc
    /\ handles' = HandlesAfter(handles, r.opened, TRUE)
    /\ last' = Call("erase", r.res, deleteList, "", r.a, NoDst, 0)

DeleteFiles(deleteList, cancelAt) ==
    /\ session.phase = "closed"
    /\ DeleteFilesReturns(deleteList, DeleteFilesW(arc, deleteList, cancelAt))
    /\ clean' = FALSE
    /\ UNCHANGED <<fs, session, packs, profile, util, loop,
                   g_global_process_data_proc, tickStep, packing>>

\* SetProcessDataProcW (exported): with a handle the callback goes to the
\* object behind it, without one to the global.
SetProcessDataProcW(hArcData, pProcessDataProc) ==
    /\ hArcData => session.phase # "closed"
    /\ session' = IF hArcData
                  THEN [session EXCEPT !.process_data_proc_ = pProcessDataProc]
                  ELSE session
    /\ g_global_process_data_proc' = IF hArcData THEN g_global_process_data_proc
                                     ELSE pProcessDataProc
    /\ last' = Call("callback", "OK", <<>>, "", NewArchive(<<>>, 0), NoDst, 0)
    /\ UNCHANGED <<arc, fs, handles, packs, clean, profile, util, loop, tickStep, packing>>

CanYouHandleThisFile ==
    /\ session.phase = "closed"
    /\ LET r == CanYouHandleThisFileW(arc)
       IN  /\ handles' = HandlesAfter(handles, r.opened, TRUE)
           /\ last' = Call("probe", IF r.res THEN "TRUE" ELSE "FALSE", <<>>, "",
                           NewArchive(<<>>, 0), NoDst, 0)
    /\ UNCHANGED <<arc, fs, session, packs, clean, profile, util, loop,
                   g_global_process_data_proc, tickStep, packing>>

Next ==
    \/ \E mode \in OpenModes(profile), cancelAt \in SessionCancels(profile) :
           OpenArchive(mode, cancelAt)
    \/ CloseArchive
    \/ \E cancelAt \in SessionCancels(profile) : ReadHeader(cancelAt)
    \/ \E operation \in Operations(profile), dstBefore \in DstBefore(profile),
          cancelAt \in SessionCancels(profile) :
           ProcessFile(operation, dstBefore, cancelAt)
    \/ \E in \in PackInputs(profile) : PackFiles(in)
    \/ \E deleteList \in DeleteLists(profile), cancelAt \in DeleteCancels(profile) :
           DeleteFiles(deleteList, cancelAt)
    \/ CanYouHandleThisFile
    \/ \E hArcData \in WithHandle(profile), pProcessDataProc \in Procs(profile) :
           SetProcessDataProcW(hArcData, pProcessDataProc)

Init == InitProfile("pack")
InitErase == InitProfile("erase")
InitSession == InitProfile("session")
InitNames == InitProfile("names")

Spec == Init /\ [][Next]_vars

SpecErase == InitErase /\ [][Next]_vars

SpecSession == InitSession /\ [][Next]_vars

SpecRoundTrip == InitRoundTrip /\ [][Next]_vars
SpecDecode == InitDecode /\ [][Next]_vars

SpecNames == InitNames /\ [][Next]_vars

SpecCorrupt == InitCorrupt /\ [][Next]_vars

SpecProgress == InitProgress /\ [][Next]_vars

SpecMove == InitMove /\ [][Next]_vars

SpecFailure == InitFailure /\ [][Next]_vars

\* ------------------------------------------------------------------------
\* The path utilities on their own: RemoveFileNameDuplicates applied to
\* every list of up to MaxPaths paths.
\* ------------------------------------------------------------------------
MaxPaths == 4

UtilPaths ==
    {<<120>>, <<88>>, <<65, 92, 120>>, <<66, 47, 88>>, <<121>>, <<65, 92, 121>>}

RECURSIVE SeqsUpTo(_, _)
SeqsUpTo(items, k) ==
    IF k = 0 THEN {<<>>}
    ELSE LET shorter == SeqsUpTo(items, k - 1)
         IN  shorter \cup {q \o <<x>> : q \in {r \in shorter : Len(r) = k - 1}, x \in items}

InitUtil ==
    /\ InitCommon
    /\ profile = "util"
    /\ tickStep \in TickSteps("util")
    /\ arc = NoFile
    /\ fs = [data |-> SrcData(<<>>), gone |-> {}]
    /\ \E paths \in SeqsUpTo(UtilPaths, MaxPaths) :
           util = [paths |-> paths, result |-> <<>>, called |-> FALSE]

CallRemoveFileNameDuplicates ==
    /\ ~util.called
    /\ util' = [util EXCEPT !.result = RemoveFileNameDuplicates(util.paths),
                            !.called = TRUE]
    /\ UNCHANGED <<arc, fs, session, handles, packs, clean, last, profile, loop,
                 g_global_process_data_proc, tickStep, packing>>

NextUtil == CallRemoveFileNameDuplicates

SpecUtil == InitUtil /\ [][NextUtil]_vars

\* ------------------------------------------------------------------------
\* Two threads of the host: one in a read session on the archive file arc,
\* the other in PackFilesW on another archive file.  The host gives the
\* pack its callback the only way there is, without a handle, and the
\* session its own with the handle, once OpenArchiveW has returned it.  The
\* user may cancel the pack, and never cancels the session: the callback of
\* the pack answers 0 from then on, that of the session always 1.  The
\* packing thread is followed from one call of the callback to the next.
\* ------------------------------------------------------------------------
PackOnA == PackInput(<<>>, <<pb>>, TRUE, FALSE, 0, {}, FALSE)

\* The PackFilesW call of the packing thread, answered 0 at call cancelAt.
PackOnAReturns(cancelAt) ==
    PackFilesW(NoFile, fs, PackOnA.subPath, PackOnA.addList, PackOnA.save_paths,
               PackOnA.move, cancelAt, PackOnA.locked, PackOnA.lazy)

PackReturned(r) == [packing EXCEPT !.phase = "returned", !.n = r.a.n, !.res = r.res,
                                   !.arc = r.arc]

\* The call of the callback at which a call of the session is answered 0:
\* the first one when the object has no callback of its own, so that
\* CallProcessDataProc takes the global one, and the user has cancelled
\* the pack; none otherwise.
CancelByPack ==
    IF ~session.process_data_proc_ /\ g_global_process_data_proc /\ packing.cancelled
    THEN 1 ELSE 0

\* Archive B, the one the session reads, holds two records.
InitConcurrent ==
    /\ InitCommon
    /\ profile = "concurrent"
    /\ tickStep \in TickSteps("concurrent")
    /\ util = NoUtil
    /\ fs = [data |-> SrcData(Content(kMinFileSizeForCompression + 1, 1)), gone |-> {}]
    /\ arc = FileOf(kFileHeader \o SoundRecord \o SoundRecord)

\* PackFilesW (exported) is entered in the other thread.
PackStarts ==
    /\ packing.phase = "none"
    /\ g_global_process_data_proc
    /\ packing' = [NoPacking EXCEPT !.phase = "running"]
    /\ UNCHANGED <<arc, fs, session, handles, packs, clean, last, profile, util, loop,
                   g_global_process_data_proc, tickStep>>

\* The user cancels the pack in the dialog of the host.
PackCancelled ==
    /\ packing.phase = "running"
    /\ ~packing.cancelled
    /\ packing' = [packing EXCEPT !.cancelled = TRUE]
    /\ UNCHANGED <<arc, fs, session, handles, packs, clean, last, profile, util, loop,
                   g_global_process_data_proc, tickStep>>

\* The packing thread reaches its next call of CallProcessDataProc and
\* throws E_EABORTED when it is answered 0.
PackCalls ==
    /\ packing.phase = "running"
    /\ packing.n < PackOnAReturns(0).a.n
    /\ packing' = IF packing.cancelled THEN PackReturned(PackOnAReturns(packing.n + 1))
                  ELSE [packing EXCEPT !.n = @ + 1]
    /\ UNCHANGED <<arc, fs, session, handles, packs, clean, last, profile, util, loop,
                   g_global_process_data_proc, tickStep>>

\* The packing thread returns from PackFilesW after its last call of the
\* callback.
PackReturns ==
    /\ packing.phase = "running"
    /\ packing.n = PackOnAReturns(0).a.n
    /\ packing' = PackReturned(PackOnAReturns(0))
    /\ UNCHANGED <<arc, fs, session, handles, packs, clean, last, profile, util, loop,
                   g_global_process_data_proc, tickStep>>

NextConcurrent ==
    \/ \E mode \in OpenModes(profile) : OpenArchive(mode, CancelByPack)
    \/ CloseArchive
    \/ ReadHeader(CancelByPack)
    \/ \E operation \in Operations(profile) : ProcessFile(operation, NoDst, CancelByPack)
    \/ \E hArcData \in BOOLEAN : SetProcessDataProcW(hArcData, TRUE)
    \/ PackStarts
    \/ PackCancelled
    \/ PackCalls
    \/ PackReturns

SpecConcurrent == InitConcurrent /\ [][NextConcurrent]_vars

\* ------------------------------------------------------------------------
\* The loops of the engine, one iteration at a time.  loop holds the kind of
\* the loop, whether it has been left (done), the locals of the loop, the
\* states the loop has been in at the begin of an iteration (seen) and
\* whether it is in one of them again (revisited).  An iteration is a
\* function of the state, so a loop that is in a state again never ends, and
\* it is not followed further.  The clock stands still over a loop
\* (tickStep = 0), so no progress report is due within it.
\*   nextEntry     the for(;;) of ReadHeaderExW
\*   DeleteIf      the two nested for(;;) of DeleteIf; phase "scan" is the
\*                 inner loop, "found" the rest of the outer iteration
\*   Decode        the for(;;) of UnpackFileContent
\*   Encode        the for(;;) of PackFileContent
\*   ShouldDelete  the while of ShouldDelete
\* ------------------------------------------------------------------------
\* A record with a path of one unit that declares pack_size and is followed
\* by payload bytes.
ScanRecord(flags, pack_size, payload) ==
    HeaderBytes(EntryHeader(kEntryMagic, flags, FILE_ATTR_ARCHIVE, kFileTime, pack_size,
                            pack_size, 1))
        \o <<100, 0>> \o Zeros(payload)

\* Declared sizes with the payload that follows: none, a payload that is
\* there, one that is not; and 64-bit sizes from 2^63 on, which the skip
\* takes for a step back: to the begin of the record, to the begin of the
\* record before it, to the begin of the file, and to before the file.
ScanSizes ==
    {<<0, 0>>, <<2, 2>>, <<2, 0>>,
     <<-(kHeaderSize + 2), 0>>, <<-(2 * (kHeaderSize + 2) + 2), 0>>,
     <<-(kHeaderSize + 2 + Len(kFileHeader)), 0>>,
     <<-(kHeaderSize + 3 + Len(kFileHeader)), 0>>}

ScanFiles ==
    {[f |-> kFileHeader \o first \o ScanRecord(flags, sz[1], sz[2]) \o after,
      back |-> sz[1] < 0] :
        first \in {<<>>, SoundRecord}, flags \in {0, kEntryFlagDeleted},
        sz \in ScanSizes, after \in {<<>>, SoundRecord}}

\* The archive object when the loop is entered: opened, the file magic read.
LoopArchive(f) ==
    [ReadAndCheckHeader(NewArchive(f, 0)) EXCEPT !.original_archive_size_ = Len(f)]

ClimbPaths ==
    {<<>>, pb, pAb, <<65, 92, 66, 92, 67>>, <<kBackslash, 65>>, dA, <<65, kSlash, 98>>,
     <<kBackslash>>, <<kBackslash, kBackslash>>}

ClimbLists == {<<>>, <<pA>>, <<<<65, 92, 66>>>>, <<pA, <<90>>>>}

LoopStarts ==
    {[kind |-> "nextEntry", done |-> FALSE, seen |-> {}, revisited |-> FALSE,
      back |-> x.back, a |-> LoopArchive(x.f),
      res |-> "OK"] : x \in ScanFiles}
      \cup {[kind |-> "DeleteIf", done |-> FALSE, seen |-> {}, revisited |-> FALSE,
      back |-> x.back, a |-> LoopArchive(x.f),
             phase |-> "scan", found |-> [ok |-> FALSE, entry_begin_offset |-> 0],
             pred |-> "erase", paths |-> paths] :
               x \in ScanFiles, paths \in {<<<<68>>>>, <<<<90>>>>}}
      \cup {[kind |-> "Decode", done |-> FALSE, seen |-> {}, revisited |-> FALSE,
      back |-> FALSE, a |-> NewArchive(c[1], 0),
             z |-> NewInflate, dst |-> <<>>, src_bytes_left |-> Len(c[1]) + more,
             total |-> 0] : c \in CraftedStreams, more \in {0, 1}}
      \cup {[kind |-> "Encode", done |-> FALSE, seen |-> {}, revisited |-> FALSE,
      back |-> FALSE, a |-> NewArchive(<<>>, 0),
             z |-> NewDeflate, src |-> src, spos |-> 0, is_src_end |-> FALSE,
             written |-> 0, read |-> 0, lazy |-> lazy] :
               src \in Contents, lazy \in BOOLEAN}
      \cup {[kind |-> "ShouldDelete", done |-> path = <<>>, seen |-> {},
      revisited |-> FALSE, back |-> FALSE,
             path |-> UpperCase(path), paths |-> paths, result |-> FALSE] :
               path \in ClimbPaths, paths \in ClimbLists}

InitLoops ==
    /\ InitCalls
    /\ loop \in LoopStarts
    /\ profile = "loops"
    /\ tickStep = 0
    /\ util = NoUtil
    /\ arc = NoFile
    /\ fs = [data |-> SrcData(<<>>), gone |-> {}]

\* The state of a loop without its history, and without the byte count of
\* the object, which no loop reads.
LoopState(l) ==
    LET now == [l EXCEPT !.seen = {}, !.revisited = FALSE]
    IN  IF l.kind = "ShouldDelete" THEN now
        ELSE [now EXCEPT !.a.bytes_processed_since_previous_progress_ = 0]

\* A loop that can take a step: it has not been left, and it is not known
\* to go on for ever.
Running(kind) == loop.kind = kind /\ ~loop.done /\ ~loop.revisited

\* The iteration that leaves the loop in the state next.
Iterate(next) ==
    /\ loop' = [next EXCEPT !.seen = loop.seen \cup {LoopState(loop)},
                            !.revisited = LoopState(next) \in
                                              loop.seen \cup {LoopState(loop)}]
    /\ UNCHANGED <<arc, fs, session, handles, packs, clean, last, profile, util,
                   g_global_process_data_proc, tickStep, packing>>

\* An iteration of the loop of ReadHeaderExW.
NextEntryStep ==
    /\ Running("nextEntry")
    /\ LET s == HeaderRead(ReadEntryHeader(loop.a))
       IN  Iterate([loop EXCEPT !.a = s.a, !.res = s.res, !.done = ~s.again])

\* An iteration of the inner loop of DeleteIf.
DeleteIfScanStep ==
    /\ Running("DeleteIf") /\ loop.phase = "scan"
    /\ LET s == HeaderSeen(ReadEntryHeader(loop.a), loop.a.pos)
       IN  Iterate([loop EXCEPT
                      !.a = s.a,
                      !.phase = IF s.again THEN "scan" ELSE "found",
                      !.found = [ok |-> s.ok,
                                 entry_begin_offset |-> s.entry_begin_offset]])

\* The rest of an iteration of the outer loop of DeleteIf.
DeleteIfStep ==
    /\ Running("DeleteIf") /\ loop.phase = "found"
    /\ LET r == [a |-> loop.a, ok |-> loop.found.ok,
                 entry_begin_offset |-> loop.found.entry_begin_offset]
           s == DeleteIfFrom(r, loop.pred, loop.paths)
       IN  Iterate([loop EXCEPT !.a = s.a, !.phase = "scan", !.done = ~s.again])

\* An iteration of the loop of UnpackFileContent.
DecodeLoopStep ==
    /\ Running("Decode")
    /\ LET s == DecodeStep(loop.a, loop.z, loop.dst, loop.src_bytes_left, loop.total)
       IN  Iterate([loop EXCEPT !.a = s.a, !.z = s.z, !.dst = s.dst,
                                !.src_bytes_left = s.src_bytes_left,
                                !.total = s.total, !.done = ~s.again])

\* An iteration of the loop of PackFileContent.
EncodeLoopStep ==
    /\ Running("Encode")
    /\ LET s == EncodeStep(loop.a, loop.z, loop.src, loop.spos, loop.is_src_end,
                           loop.written, loop.read, loop.lazy)
       IN  Iterate([loop EXCEPT !.a = s.a, !.z = s.z, !.spos = s.spos,
                                !.is_src_end = s.is_src_end,
                                !.written = s.out_bytes_written,
                                !.read = s.out_bytes_read, !.done = ~s.again])

\* An iteration of the loop of ShouldDelete, with the test of its condition
\* that follows.
ShouldDeleteClimb ==
    /\ Running("ShouldDelete")
    /\ LET s == ShouldDeleteStep(loop.path, loop.paths)
       IN  Iterate([loop EXCEPT !.path = s.path, !.result = s.result,
                                !.done = ~s.again \/ s.path = <<>>])

NextLoops ==
    \/ NextEntryStep
    \/ DeleteIfScanStep
    \/ DeleteIfStep
    \/ DecodeLoopStep
    \/ EncodeLoopStep
    \/ ShouldDeleteClimb

SpecLoops == InitLoops /\ [][NextLoops]_vars

\* ------------------------------------------------------------------------
\* The records of an archive file, read off its bytes by the layout of
\* EntryHeader: the offset of each record, its header, its path and the
\* offset one past its payload.  The last record may lack payload bytes
\* (end beyond the file), as a pack that failed leaves it.
\* ------------------------------------------------------------------------
RECURSIVE EntriesFrom(_, _)
EntriesFrom(data, off) ==
    IF off + kHeaderSize > Len(data) THEN <<>>
    ELSE LET h == HeaderOfBytes(SubSeq(data, off + 1, off + kHeaderSize))
             path_end == off + kHeaderSize + 2 * h.path_len
             end == path_end + h.pack_size
         IN  IF h.magic # kEntryMagic \/ path_end > Len(data) THEN <<>>
             ELSE <<[off |-> off, h |-> h,
                     path |-> PathOfBytes(SubSeq(data, off + kHeaderSize + 1, path_end)),
                     end |-> end]>>
                      \o (IF end > off THEN EntriesFrom(data, end) ELSE <<>>)

Entries(data) ==
    IF Len(data) >= Len(kFileHeader) /\ SubSeq(data, 1, Len(kFileHeader)) = kFileHeader
    THEN EntriesFrom(data, Len(kFileHeader))
    ELSE <<>>

Range(q) == {q[i] : i \in 1..Len(q)}

IsLive(e) == ~HasFlag(e.h.flags, kEntryFlagDeleted)
LiveEntries(data) == {e \in Range(Entries(data)) : IsLive(e)}

\* The archive is the file magic followed by whole records and nothing else.
WellFormed(data) ==
    /\ Len(data) >= Len(kFileHeader)
    /\ SubSeq(data, 1, Len(kFileHeader)) = kFileHeader
    /\ LET es == Entries(data)
       IN  IF es = <<>> THEN Len(data) = Len(kFileHeader)
           ELSE es[Len(es)].end = Len(data)

\* What a host that lists the archive is given: OpenArchiveW, then
\* ReadHeaderExW and ProcessFileW(PK_SKIP) until one of them fails.
RECURSIVE ListFrom(_)
ListFrom(a) ==
    LET r == ReadHeaderExW(a)
        entry == [off |-> r.a.pos - kHeaderSize - 2 * r.a.last_header_.path_len,
                  path |-> r.a.last_header_path_]
        p == ProcessFileW(r.a, "PK_SKIP", NoDst)
    IN  IF r.res # "OK" THEN <<>>
        ELSE IF p.res # "OK" THEN <<entry>>
        ELSE <<entry>> \o ListFrom(p.a)

Listing(file) ==
    LET o == OpenArchiveW(file, 0)
    IN  IF o.res # "OK" THEN <<>> ELSE ListFrom(o.a)

\* ------------------------------------------------------------------------
\* C1  Round trip.  Extracting an entry that PackFilesW wrote gives a
\* destination file with the bytes of the source file, so of its length,
\* and returns success, whatever the size of the source: 0, below, at and
\* above kMinFileSizeForCompression, and around whole I/O buffers.
\* ------------------------------------------------------------------------
RoundTrip ==
    (last.op = "process" /\ last.how = "PK_EXTRACT")
        => /\ last.res = "OK"
           /\ last.dst.kind = "file"
           /\ last.dst.data = fs.data[last.arg]

RoundTripWitness ==
    /\ last.op = "process" /\ last.how = "PK_EXTRACT" /\ last.res = "OK"
    /\ last.arg = pb
    /\ Len(fs.data[pb]) = kMinFileSizeForCompression + 1
    /\ last.dst.data = fs.data[pb]
    /\ \E e \in Range(Entries(arc.data)) :
           e.off = last.entry /\ HasFlag(e.h.flags, kEntryFlagCompressed)

\* ------------------------------------------------------------------------
\* C2  Tombstone invisibility.  After DeleteFilesW succeeds, no entry that
\* was live and whose path is an item of the deletion list is returned by a
\* listing of the archive, and the archive file is as long as it was.
\* ------------------------------------------------------------------------
TombstoneInvisible ==
    [][(last'.op = "erase" /\ last'.res = "OK")
          => /\ Len(arc'.data) = Len(arc.data)
             /\ \A e \in LiveEntries(arc.data) :
                    e.path \in Range(last'.arg)
                        => \A l \in Range(Listing(arc')) : l.off # e.off]_vars

TombstoneInvisibleWitness ==
    /\ last.op = "erase" /\ last.res = "OK"
    /\ \E e \in Range(Entries(arc.data)) :
           /\ e.path \in Range(last.arg)
           /\ e.off + kFlagsOffset \in last.w
           /\ e.h.pack_size > 0
           /\ \A l \in Range(Listing(arc)) : l.off # e.off
    /\ Listing(arc) # <<>>

FlagsAt(data, off) == data[off + kFlagsOffset + 1]

Superseded(e, archive_paths) == \E p \in Range(archive_paths) : StricmpEq(e.path, p)

\* ------------------------------------------------------------------------
\* C3  Supersede on pack.  After PackFilesW succeeds on an archive that
\* existed and was well formed, every entry that was live and whose path
\* equals, case-insensitively, one of the in-archive paths of the call
\* carries kEntryFlagDeleted, in either mode.
\* ------------------------------------------------------------------------
SupersedeOnPack ==
    [][(last'.op = "pack" /\ last'.res = "OK" /\ arc.exists /\ WellFormed(arc.data))
          => \A e \in LiveEntries(arc.data) :
                 Superseded(e, last'.arg)
                     => HasFlag(FlagsAt(arc'.data, e.off), kEntryFlagDeleted)]_vars

LiveWithPath(data, p) == {e \in LiveEntries(data) : StricmpEq(e.path, p)}

\* ------------------------------------------------------------------------
\* C4  Single live version.  While only successful PackFilesW calls, each
\* with pairwise different in-archive paths, have written an archive that
\* the first of them created, no two live entries have the same path
\* (case-insensitively), and every path of the last call has a live entry.
\* ------------------------------------------------------------------------
SingleLiveVersion ==
    clean
        => /\ \A e \in LiveEntries(arc.data) :
                  Cardinality(LiveWithPath(arc.data, e.path)) = 1
           /\ last.op = "pack"
                  => \A p \in Range(last.arg) :
                         Cardinality(LiveWithPath(arc.data, p)) = 1

\* The path and what is left of it before each of its separators.
Ancestors(path) ==
    {path} \cup {SubSeq(path, 1, k - 1) : k \in {i \in 1..Len(path) : IsSep(path[i])}}

DeletionSet(deleteList) == {NormalizeDeletePath(item) : item \in Range(deleteList)}

\* ------------------------------------------------------------------------
\* C5  Ancestor matching on erase.  After DeleteFilesW succeeds, an entry
\* that was live carries kEntryFlagDeleted if and only if its upper-cased
\* path, or what is left of it after stripping last components, is in the
\* normalized deletion set.
\* ------------------------------------------------------------------------
AncestorMatching ==
    [][(last'.op = "erase" /\ last'.res = "OK")
          => \A e \in LiveEntries(arc.data) :
                 HasFlag(FlagsAt(arc'.data, e.off), kEntryFlagDeleted)
                     <=> (Ancestors(UpperCase(e.path)) \cap DeletionSet(last'.arg) # {})]_vars

AncestorMatchingWitness ==
    /\ last.op = "erase" /\ last.res = "OK"
    /\ \E e \in Range(Entries(arc.data)) :
           /\ e.off + kFlagsOffset \in last.w
           /\ UpperCase(e.path) \notin DeletionSet(last.arg)
           /\ UpDir(UpperCase(e.path)) \notin DeletionSet(last.arg)
    /\ LiveEntries(arc.data) # {}

\* One past the last whole record of the archive.
LastEnd(data) ==
    LET es == Entries(data)
    IN  IF es = <<>> THEN Min(Len(data), Len(kFileHeader)) ELSE es[Len(es)].end

FlagsOffsets(entries) == {e.off + kFlagsOffset : e \in entries}

\* ------------------------------------------------------------------------
\* C9  Append-only pack.  PackFilesW on an archive that exists, however it
\* returns, does not shorten the file, changes no byte the file had except
\* to set kEntryFlagDeleted in the flags byte of live entries that the call
\* supersedes, keeps every record where it was, and writes everything else
\* after the end of the last record the file had.
\* ------------------------------------------------------------------------
AppendOnlyPack ==
    [][(last'.op = "pack" /\ arc.exists)
          => LET before == Range(Entries(arc.data))
                 after == Range(Entries(arc'.data))
                 live == {e \in before : IsLive(e)}
                 superseded == {e.off + kFlagsOffset + 1 :
                                   e \in {l \in live : Superseded(l, last'.arg)}}
                 end == LastEnd(arc.data)
             IN  /\ Len(arc'.data) >= Len(arc.data)
                 /\ \A i \in 1..Len(arc.data) :
                        \/ arc'.data[i] = arc.data[i]
                        \/ /\ i \in superseded
                           /\ arc'.data[i] = SetFlag(arc.data[i], kEntryFlagDeleted)
                 /\ \A e \in before :
                        \E n \in after :
                            n.off = e.off /\ n.end = e.end /\ n.path = e.path
                 /\ \A n \in after :
                        \/ \E e \in before : n.off = e.off
                        \/ n.off >= end
                 /\ \A o \in last'.w :
                        \/ o \in FlagsOffsets(live)
                        \/ o >= end]_vars

AppendOnlyPackWitness ==
    /\ last.op = "pack" /\ last.res = "OK"
    /\ \E e, n \in Range(Entries(arc.data)) :
           /\ ~IsLive(e) /\ e.off + kFlagsOffset \in last.w
           /\ IsLive(n) /\ n.off > e.off /\ n.off \in last.w
           /\ StricmpEq(e.path, n.path)
           /\ n.h.pack_size > 0
           /\ n.off + kPackSizeOffset \in last.w

SameFileName(p, q) == StricmpEq(ExtractFileName(p), ExtractFileName(q))

LastOfName(paths) ==
    {i \in 1..Len(paths) :
        \A j \in (i + 1)..Len(paths) : ~SameFileName(paths[i], paths[j])}

\* ------------------------------------------------------------------------
\* C6  Flatten-mode duplicate resolution.  RemoveFileNameDuplicates returns
\* the paths that no later path of the input shares the bare file name
\* with (case-insensitively), each once, and nothing else.
\* ------------------------------------------------------------------------
KeepsLastOfEachName ==
    util.called
        => /\ Len(util.result) = Cardinality(LastOfName(util.paths))
           /\ \A i \in LastOfName(util.paths) :
                  \E k \in 1..Len(util.result) : util.result[k] = util.paths[i]

KeepsLastOfEachNameWitness ==
    /\ util.called
    /\ Len(util.paths) = 4
    /\ Len(util.result) = 2
    /\ util.paths[1] # util.paths[3]
    /\ SameFileName(util.paths[1], util.paths[3])
    /\ SameFileName(util.paths[2], util.paths[4])

\* ------------------------------------------------------------------------
\* C7  Cancellation cleanup on extract.  When ProcessFileW(PK_EXTRACT)
\* returns E_EABORTED, at whichever progress report the callback answered
\* 0, the destination file, or the destination directory the call created,
\* does not exist.
\* ------------------------------------------------------------------------
CancelledExtractLeavesNothing ==
    (last.op = "process" /\ last.how = "PK_EXTRACT" /\ last.res = "E_EABORTED")
        => last.dst.kind = "none"

\* ------------------------------------------------------------------------
\* C8  Handle release.  The only FILE handle open on the archive between
\* calls is the one of a successfully opened read session: none is left by
\* an OpenArchiveW that failed, nor by PackFilesW, DeleteFilesW and
\* CanYouHandleThisFileW however they returned.
\* ------------------------------------------------------------------------
HandleRelease == handles = IF session.phase # "closed" THEN 1 ELSE 0

\* ------------------------------------------------------------------------
\* C10  Erase changes only flag bits.  DeleteFilesW, however it returns,
\* leaves the archive as long as it was and writes nothing but the flags
\* byte of live entries that match the deletion set, where it sets
\* kEntryFlagDeleted and keeps the other bits; every other byte of the file,
\* so every other field of every entry, is neither changed nor written.
\* ------------------------------------------------------------------------
EraseOnlySetsDeleted ==
    [][last'.op = "erase"
          => LET matching ==
                     {e \in LiveEntries(arc.data) :
                          Ancestors(UpperCase(e.path)) \cap DeletionSet(last'.arg) # {}}
             IN  /\ Len(arc'.data) = Len(arc.data)
                 /\ last'.w \subseteq FlagsOffsets(matching)
                 /\ \A o \in last'.w :
                        arc'.data[o + 1] = SetFlag(arc.data[o + 1], kEntryFlagDeleted)
                 /\ \A i \in 1..Len(arc.data) :
                        (i - 1) \notin last'.w => arc'.data[i] = arc.data[i]]_vars

EraseOnlySetsDeletedWitness ==
    /\ last.op = "erase"
    /\ \E e, n, d \in Range(Entries(arc.data)) :
           /\ e.off + kFlagsOffset \in last.w
           /\ e.h.flags = kEntryFlagDeleted + kEntryFlagCompressed
           /\ IsLive(n)
           /\ ~IsLive(d) /\ d.off + kFlagsOffset \notin last.w

\* The header of the record at offset off, read off the bytes of the file.
HeaderAt(data, off) == HeaderOfBytes(SubSeq(data, off + 1, off + kHeaderSize))

\* ------------------------------------------------------------------------
\* C11  Idempotent listing.  No call of a read session (OpenArchiveW,
\* ReadHeaderExW, ProcessFileW with any operation, CloseArchive) writes a
\* byte of the archive file.  A session that reaches the end of the archive
\* has returned, in order, the entries that a listing of the file returns,
\* whatever its mode and whether it skipped, tested or extracted them; and
\* the header fields returned for an entry are those stored at its offset.
\* Two complete listings of the same bytes are therefore equal.
\* ------------------------------------------------------------------------
IdempotentListing ==
    /\ last.op \in {"open", "header", "process", "close"} => last.w = {}
    /\ (last.op = "header" /\ last.res = "E_END_ARCHIVE")
           => session.seen = Listing(arc)
    /\ (last.op = "header" /\ last.res = "OK")
           => session.last_header_ = HeaderAt(arc.data, session.entry)

IdempotentListingWitness ==
    /\ last.op = "header" /\ last.res = "E_END_ARCHIVE"
    /\ session.mode = "PK_OM_EXTRACT"
    /\ Len(session.seen) >= 2
    /\ \E e \in Range(Entries(arc.data)) : ~IsLive(e)
    /\ session.seen = Listing(arc)

\* The records without kEntryFlagDeleted, in file order, as a listing
\* returns them: offset and path.
LiveListing(data) ==
    LET live == SelectSeq(Entries(data), IsLive)
    IN  [i \in 1..Len(live) |-> [off |-> live[i].off, path |-> live[i].path]]

IsPrefix(p, q) == Len(p) <= Len(q) /\ SubSeq(q, 1, Len(p)) = p

\* ------------------------------------------------------------------------
\* C12  Listing returns exactly the live entries.  On a well-formed archive
\* the entries ReadHeaderExW has returned in a session, each followed by a
\* successful ProcessFileW, are always the first live records of the file
\* in file order, each once and at its own offset (so the payload of every
\* tombstoned record before it was skipped by exactly its pack_size);
\* ReadHeaderExW fails only with E_EABORTED or E_END_ARCHIVE, and when it
\* returns E_END_ARCHIVE every live record has been returned.
\* ------------------------------------------------------------------------
ExactlyLiveEntries ==
    (arc.exists /\ WellFormed(arc.data) /\ session.phase # "closed")
        => /\ IsPrefix(session.seen, LiveListing(arc.data))
           /\ (last.op = "header" /\ last.res \notin {"OK", "E_EABORTED"})
                  => /\ last.res = "E_END_ARCHIVE"
                     /\ session.seen = LiveListing(arc.data)

ExactlyLiveEntriesWitness ==
    /\ arc.exists /\ WellFormed(arc.data)
    /\ last.op = "header" /\ last.res = "E_END_ARCHIVE"
    /\ Len(session.seen) >= 2
    /\ \E i \in 1..Len(Entries(arc.data)) :
           /\ ~IsLive(Entries(arc.data)[i])
           /\ Entries(arc.data)[i].h.pack_size > 0
           /\ \E l \in Range(session.seen) : l.off = Entries(arc.data)[i].end

\* The first record without kEntryFlagDeleted at or after offset off, as a
\* sequence of at most one element.
FirstLiveFrom(data, off) ==
    LET live == SelectSeq(EntriesFrom(data, off), IsLive)
    IN  IF live = <<>> THEN <<>> ELSE <<live[1]>>

\* The two conditions ReadHeaderExW rejects a live entry for.
InvalidSizes(h) ==
    \/ HasFlag(h.attributes, FILE_ATTR_DIRECTORY) /\ (h.pack_size > 0 \/ h.unp_size > 0)
    \/ ~HasFlag(h.flags, kEntryFlagCompressed) /\ h.pack_size # h.unp_size

\* ------------------------------------------------------------------------
\* C13  Entry validation on listing.  ReadHeaderExW never returns success
\* with a header that is a directory with a non-zero packed or original
\* size, or that lacks kEntryFlagCompressed and has different packed and
\* original sizes; and when the next live record at the cursor is of either
\* kind, the call returns E_BAD_ARCHIVE.
\* ------------------------------------------------------------------------
ValidatedOnListing ==
    [][last'.op = "header"
          => /\ last'.res = "OK" => ~InvalidSizes(session'.last_header_)
             /\ \A e \in Range(FirstLiveFrom(arc.data, session.pos)) :
                    InvalidSizes(e.h) => last'.res = "E_BAD_ARCHIVE"]_vars

ValidatedOnListingWitness ==
    /\ last.op = "header" /\ last.res = "E_BAD_ARCHIVE"
    /\ \E e \in Range(Entries(arc.data)) :
           /\ e.off > Len(kFileHeader)
           /\ e.end = session.pos + e.h.pack_size
           /\ IsLive(e)
           /\ HasFlag(e.h.attributes, FILE_ATTR_DIRECTORY)
           /\ HasFlag(e.h.flags, kEntryFlagCompressed)
           /\ e.h.unp_size > 0

\* ------------------------------------------------------------------------
\* C14.  File-magic check.  On an existing file of at least 8 bytes whose
\* first 8 bytes are not kFileHeader, OpenArchiveW, PackFilesW and
\* DeleteFilesW each return E_BAD_ARCHIVE, and PackFilesW and DeleteFilesW
\* have written no byte: the file is as it was.
\* ------------------------------------------------------------------------
BadMagic(data) ==
    /\ Len(data) >= Len(kFileHeader)
    /\ SubSeq(data, 1, Len(kFileHeader)) # kFileHeader

RECURSIVE CursorAfterDeleted(_, _)
CursorAfterDeleted(data, off) ==
    IF off + kHeaderSize > Len(data) THEN off
    ELSE LET h == HeaderAt(data, off)
             path_end == off + kHeaderSize + 2 * h.path_len
         IN  IF /\ h.magic = kEntryMagic
                /\ h.path_len \in 1..(kMaxFileNameLen - 1)
                /\ path_end <= Len(data)
                /\ HasFlag(h.flags, kEntryFlagDeleted)
             THEN CursorAfterDeleted(data, path_end + h.pack_size)
             ELSE off

BytesAvailable(data, off) == IF off >= Len(data) THEN 0 ELSE Len(data) - off

EntryMagicAt(data, off) ==
    /\ BytesAvailable(data, off) >= 4
    /\ FromLE(SubSeq(data, off + 1, off + 4)) = kEntryMagic

\* ------------------------------------------------------------------------
\* C15.  End-of-archive detection.  ReadHeaderExW returns E_END_ARCHIVE
\* exactly when no byte is available at the cursor where a header is due;
\* when at least one byte is available there and the leading bytes are not
\* kEntryMagic, a remainder shorter than a header included, it returns
\* E_BAD_ARCHIVE.
\* ------------------------------------------------------------------------
EndOfArchiveOnlyAtEnd ==
    [][last'.op = "header"
          => LET cursor == CursorAfterDeleted(arc.data, session.pos)
                 available == BytesAvailable(arc.data, cursor)
             IN  /\ last'.res = "E_END_ARCHIVE" <=> available = 0
                 /\ (available > 0 /\ ~EntryMagicAt(arc.data, cursor))
                        => last'.res = "E_BAD_ARCHIVE"]_vars

\* ------------------------------------------------------------------------
\* C16.  Path-length bounds on read.  Where a header with the entry magic
\* is due, ReadHeaderExW returns E_BAD_ARCHIVE when its path_len is 0 and
\* E_SMALL_BUF when it is above kMaxFileNameLen - 1.  Otherwise, when the
\* file holds the whole path of a live record, the call fails only for
\* invalid sizes, and on success last_header_path_ has exactly path_len
\* code units, those of the file, and the cursor is just after the path.
\* ------------------------------------------------------------------------
PathLengthBounds ==
    [][(last'.op = "header"
        /\ EntryMagicAt(arc.data, CursorAfterDeleted(arc.data, session.pos))
        /\ BytesAvailable(arc.data, CursorAfterDeleted(arc.data, session.pos))
               >= kHeaderSize)
          => LET cursor == CursorAfterDeleted(arc.data, session.pos)
                 h == HeaderAt(arc.data, cursor)
                 path_end == cursor + kHeaderSize + 2 * h.path_len
             IN  /\ h.path_len = 0 => last'.res = "E_BAD_ARCHIVE"
                 /\ h.path_len > kMaxFileNameLen - 1 => last'.res = "E_SMALL_BUF"
                 /\ (h.path_len \in 1..(kMaxFileNameLen - 1) /\ path_end <= Len(arc.data))
                        => /\ last'.res = IF InvalidSizes(h) THEN "E_BAD_ARCHIVE" ELSE "OK"
                           /\ session'.pos = path_end
                           /\ last'.res = "OK"
                                  => /\ Len(session'.last_header_path_) = h.path_len
                                     /\ session'.last_header_path_
                                            = PathOfBytes(SubSeq(arc.data,
                                                                 cursor + kHeaderSize + 1,
                                                                 path_end))]_vars

PathLengthBoundsWitness ==
    /\ last.op = "header" /\ last.res = "OK"
    /\ Len(session.last_header_path_) = kMaxFileNameLen - 1
    /\ session.pos = session.entry + kHeaderSize + 2 * (kMaxFileNameLen - 1)
    /\ session.entry > Len(kFileHeader)

\* The entry points that report progress.
Reporting == {"open", "header", "process", "pack", "erase"}

\* The calls of the callback made by the last call of an entry point, as
\* indices of last.invoked.
OwnCalls(call) == (Len(call.invoked) - call.n + 1)..Len(call.invoked)

\* ------------------------------------------------------------------------
\* C17.  Cancellation semantics.  When the callback returns 0 to
\* OpenArchiveW, ReadHeaderExW, ProcessFileW, PackFilesW or DeleteFilesW,
\* that was its last call, the entry point returns E_EABORTED, and the
\* cursor and the bytes written are what they were at the call: nothing of
\* the archive was read or written after it.  An entry point returns
\* E_EABORTED only after such an answer; and when neither the callback of
\* the object nor the global one is registered, no callback is called and
\* no entry point returns E_EABORTED.
\* ------------------------------------------------------------------------
CancelledAtOnce ==
    [][last'.op \in Reporting
          => /\ \A i \in OwnCalls(last') :
                    last'.invoked[i].result = 0
                        => /\ i = Len(last'.invoked)
                           /\ last'.res = "E_EABORTED"
                           /\ last'.pos = last'.invoked[i].pos
                           /\ last'.w = last'.invoked[i].w
             /\ last'.res = "E_EABORTED"
                    => /\ last'.n > 0
                       /\ last'.invoked[Len(last'.invoked)].result = 0
             /\ (/\ ~g_global_process_data_proc
                 /\ ~(last'.op \in {"header", "process"} /\ session.process_data_proc_))
                    => last'.n = 0 /\ last'.res # "E_EABORTED"]_vars

CancelledAtOnceWitness ==
    /\ last.op = "process" /\ last.how = "PK_EXTRACT"
    /\ last.res = "E_EABORTED"
    /\ last.n = MaxCancelAt
    /\ ~g_global_process_data_proc
    /\ session.process_data_proc_
    /\ last.pos > session.entry + kHeaderSize + 2 * Len(last.arg)

\* ------------------------------------------------------------------------
\* C18.  Rate limiting.  Two successive calls of the callback on one
\* archive object, the unconditional first one of PackFilesW and
\* DeleteFilesW included, are more than
\* kProgressUpdateIntervalMilliseconds apart.
\* ------------------------------------------------------------------------
RateLimited ==
    \A i \in 1..(Len(last.invoked) - 1) :
        last.invoked[i + 1].time
            > last.invoked[i].time + kProgressUpdateIntervalMilliseconds

RateLimitedWitness ==
    /\ last.op \in {"pack", "erase"}
    /\ tickStep = kProgressUpdateIntervalMilliseconds \div 2
    /\ Len(last.invoked) >= 2
    /\ last.invoked[1].time = Uptime
    /\ last.invoked[2].time = Uptime + 4 * tickStep

\* ------------------------------------------------------------------------
\* C19.  Sorted insertion order.  In either mode the in-archive paths of
\* the candidates of a PackFilesW call are in ascending case-insensitive
\* order, and the search of DeleteIf's predicate over them (lower_bound
\* with StricmpPred, then _wcsicmp) finds each of them.
\* ------------------------------------------------------------------------
SortedInsertionOrder ==
    last.op = "pack"
        => /\ \A i \in 1..(Len(last.arg) - 1) :
                  ~StricmpPred(last.arg[i + 1], last.arg[i])
           /\ \A i \in 1..Len(last.arg) :
                  SupersededByPack(last.arg[i], last.arg)

\* The records a PackFilesW call appended: those from the end of the last
\* record the file had before the call (beyond the end of the file when an
\* earlier pack failed within a payload).
AppendedBy(before, after) ==
    EntriesFrom(after.data,
                IF before.exists THEN LastEnd(before.data) ELSE Len(kFileHeader))

\* ------------------------------------------------------------------------
\* C20.  Source deletion ordering.  A PackFilesW call deletes source files
\* and directories only when a whole record of every candidate has been
\* appended, in candidate order; a call that fails or is cancelled before
\* that leaves the source tree as it was.  The deletions go through the
\* candidates from the last to the first, so a listed file or directory
\* beneath a listed directory is deleted before that directory.
\* ------------------------------------------------------------------------
SourcesDeletedLast ==
    [][last'.op = "pack"
          => LET deleted == last'.deleted
                 count == Len(last'.arg)
                 appended == AppendedBy(arc, arc')
             IN  /\ fs'.gone = fs.gone \cup {deleted[k].path : k \in 1..Len(deleted)}
                 /\ fs'.data = fs.data
                 /\ last'.res \notin {"OK", "E_EWRITE"} => deleted = <<>>
                 /\ deleted # <<>>
                        => /\ Len(appended) = count
                           /\ \A j \in 1..count :
                                  /\ appended[j].path = last'.arg[j]
                                  /\ appended[j].end <= Len(arc'.data)
                                  /\ IsLive(appended[j])
                 /\ \A k \in 1..Len(deleted) :
                        /\ deleted[k].i = count - k + 1
                        /\ ExtractFileName(deleted[k].path)
                               = ExtractFileName(last'.arg[deleted[k].i])
                 /\ \A k1, k2 \in 1..Len(deleted) :
                        IsPrefixDir(deleted[k2].path, deleted[k1].path) => k1 < k2]_vars

SourcesDeletedLastWitness ==
    /\ last.op = "pack" /\ last.res = "OK" /\ last.how = "save_paths"
    /\ Len(last.deleted) = 3
    /\ last.deleted[3].path = pA
    /\ {pA, pAb, pAc} \subseteq fs.gone
    /\ pb \notin fs.gone

\* The offset where a PackFilesW call starts to append.
AppendStart(before) == IF before.exists THEN LastEnd(before.data) ELSE Len(kFileHeader)

\* What C21 says of a failed call that took the file from before to after,
\* appended being the records it appended.
Kept(before, after, call, appended) ==
    /\ Len(after.data) >= Len(before.data)
    /\ \A o \in call.w : o < Len(after.data)
    /\ call.w # {} => after.exists
    /\ \A e \in LiveEntries(before.data) :
           (e.off + kFlagsOffset) \in call.w
               => FlagsAt(after.data, e.off)
                      = SetFlag(FlagsAt(before.data, e.off), kEntryFlagDeleted)
    /\ 0 \in call.w => SubSeq(after.data, 1, Len(kFileHeader)) = kFileHeader
    /\ \A o \in call.w :
           o >= AppendStart(before)
               => \E j \in 1..Len(appended) :
                      appended[j].off <= o /\ o < appended[j].end
    /\ \A j \in 1..Len(appended) :
           /\ appended[j].path = call.arg[j]
           /\ IsLive(appended[j])
           /\ appended[j].off \in call.w
           /\ j < Len(appended) => appended[j].end <= Len(after.data)

\* ------------------------------------------------------------------------
\* C21.  No rollback.  When PackFilesW or DeleteFilesW ends with an error
\* or E_EABORTED, the file is no shorter than it was and holds every byte
\* the call wrote: the flags byte of every entry it tombstoned still has
\* kEntryFlagDeleted (and its other bits), the file magic of a new archive
\* is there, and what was appended is a sequence of live records of the
\* candidates, in candidate order, of which only the last may lack payload
\* bytes.
\* ------------------------------------------------------------------------
NoRollback ==
    [][(last'.op \in {"pack", "erase"} /\ last'.res # "OK")
          => Kept(arc, arc', last', AppendedBy(arc, arc'))]_vars

NoRollbackWitness ==
    /\ last.op = "pack" /\ last.res = "E_EOPEN"
    /\ \E e, n, c \in Range(Entries(arc.data)) :
           /\ ~IsLive(e) /\ (e.off + kFlagsOffset) \in last.w
           /\ IsLive(n) /\ n.off \in last.w /\ n.end <= Len(arc.data)
           /\ n.h.pack_size > 0
           /\ c.off \in last.w /\ c.end > Len(arc.data)

\* ------------------------------------------------------------------------
\* C22.  Independence of concurrent operations.  While a PackFilesW call
\* on one archive and a read session on another run in two threads, each
\* calls only the callback registered for it: every call made by
\* OpenArchiveW, ReadHeaderExW and ProcessFileW goes to the callback of the
\* session's object, and none of them returns E_EABORTED, the user never
\* having cancelled the session; and the pack returns E_EABORTED only when
\* the user cancelled it, and otherwise 0 with the archive it writes alone.
\* ------------------------------------------------------------------------
Independent ==
    [][/\ (packing.phase = "running" /\ last' # last
            /\ last'.op \in {"open", "header", "process"})
           => /\ \A i \in OwnCalls(last') : last'.invoked[i].own
              /\ last'.res # "E_EABORTED"
       /\ (packing.phase = "running" /\ packing'.phase = "returned")
           => /\ packing'.res = "E_EABORTED" => packing.cancelled
              /\ ~packing.cancelled
                     => /\ packing'.res = "OK"
                        /\ packing'.arc = PackOnAReturns(0).arc]_vars

\* What C23 says of the records a successful PackFilesW call appended,
\* listing being what a host that lists the file afterwards is given.
PolicyKept(call, sizes, appended, listing) ==
    /\ Len(appended) = Len(call.arg)
    /\ \A j \in 1..Len(appended) :
           LET h == appended[j].h
               is_directory == HasFlag(h.attributes, FILE_ATTR_DIRECTORY)
           IN  /\ appended[j].path = call.arg[j]
               /\ HasFlag(h.flags, kEntryFlagCompressed)
                      <=> (~is_directory /\ h.unp_size >= kMinFileSizeForCompression)
               /\ is_directory => (h.pack_size = 0 /\ h.unp_size = 0)
               /\ ~HasFlag(h.flags, kEntryFlagCompressed) => h.pack_size = h.unp_size
               /\ appended[j].path \in SrcFiles => h.unp_size = sizes[appended[j].path]
               /\ appended[j].path \in SrcDirs => is_directory
               /\ ~InvalidSizes(h)
               /\ \E l \in Range(listing) : l.off = appended[j].off

\* ------------------------------------------------------------------------
\* C23.  Compression policy and sizes of written entries.  Every record
\* that a successful PackFilesW call appends has kEntryFlagCompressed if
\* and only if it is a file whose original size, the size of the source
\* file, is at least kMinFileSizeForCompression; a directory record has
\* packed and original size 0; a record without kEntryFlagCompressed has
\* equal packed and original sizes.  So none of them is rejected by the
\* validation of ReadHeaderExW, and a listing of the file returns each.
\* ------------------------------------------------------------------------
CompressionPolicy ==
    [][(last'.op = "pack" /\ last'.res = "OK")
          => PolicyKept(last', [p \in SrcFiles |-> Len(fs.data[p])],
                        AppendedBy(arc, arc'), Listing(arc'))]_vars

CompressionPolicyWitness ==
    /\ last.op = "pack" /\ last.res = "OK"
    /\ \E d, n, u \in Range(Entries(arc.data)) :
           /\ d.off \in last.w /\ HasFlag(d.h.attributes, FILE_ATTR_DIRECTORY)
           /\ n.off \in last.w /\ HasFlag(n.h.flags, kEntryFlagCompressed)
           /\ n.h.unp_size = kMinFileSizeForCompression
           /\ n.h.pack_size # n.h.unp_size
           /\ ~HasFlag(u.h.flags, kEntryFlagCompressed)
           /\ u.h.unp_size \in 1..(kMinFileSizeForCompression - 1)

\* ------------------------------------------------------------------------
\* C24.  The format probe never fails outward.  CanYouHandleThisFileW
\* returns TRUE or FALSE and nothing else: TRUE exactly when the file can
\* be opened and its first 8 bytes are kFileHeader, FALSE when the file
\* cannot be opened, is shorter than 8 bytes or begins with other bytes.
\* It leaves the file as it was and no FILE handle open.
\* ------------------------------------------------------------------------
ProbeNeverFails ==
    [][last'.op = "probe"
          => /\ last'.res \in {"TRUE", "FALSE"}
             /\ last'.res = "TRUE"
                    <=> /\ arc.exists
                        /\ Len(arc.data) >= Len(kFileHeader)
                        /\ SubSeq(arc.data, 1, Len(kFileHeader)) = kFileHeader
             /\ arc' = arc
             /\ fs' = fs
             /\ handles' = handles]_vars

ProbeNeverFailsWitness ==
    /\ last.op = "probe" /\ last.res = "FALSE"
    /\ arc.exists /\ BadMagic(arc.data)
    /\ packs > 0

\* The offsets of the pack_size field of the record at off.
PackSizeField(off) == (off + kPackSizeOffset)..(off + kPackSizeOffset + 7)

\* What C25 says of a successful PackFilesW call that took the file to
\* after: appended are the records it appended from offset start on, src
\* the contents of the source files.
PatchKept(call, src, start, appended, after) ==
    /\ Len(appended) = Len(call.arg)
    /\ \A j \in 1..Len(appended) :
           LET e == appended[j]
               compressed == HasFlag(e.h.flags, kEntryFlagCompressed)
               payload_begin == e.off + kHeaderSize + 2 * e.h.path_len
               payload_end == IF j < Len(appended) THEN appended[j + 1].off
                              ELSE Len(after.data)
           IN  /\ e.path = call.arg[j]
               /\ e.h.pack_size = payload_end - payload_begin
               /\ ~compressed
                      => SubSeq(after.data, payload_begin + 1, payload_end) = src[e.path]
               /\ PackSizeField(e.off) \cap call.over # {}
                      <=> (compressed /\ e.h.pack_size # e.h.unp_size)
               /\ e.h.unp_size = Len(src[e.path])
               /\ e.h.path_len = Len(e.path)
               /\ e.h.time = kFileTime
               /\ e.h.attributes = FILE_ATTR_ARCHIVE
               /\ e.h.flags = IF EnableCompressionForFile(Len(src[e.path]))
                              THEN kEntryFlagCompressed ELSE 0
    /\ \A o \in call.over :
           o >= start => \E j \in 1..Len(appended) : o \in PackSizeField(appended[j].off)
    /\ call.pos = Len(after.data)

\* ------------------------------------------------------------------------
\* C25.  Packed-size patching.  In every record that a successful
\* PackFilesW call appended, pack_size is the count of payload bytes the
\* call wrote for it: the payload ends where the next record begins or the
\* file ends.  The call writes again into a record it appended only to
\* patch pack_size, and only for a compressed entry whose packed size
\* differs from the original size written first; the other fields stay as
\* written; the cursor ends at the end of the last payload.
\* ------------------------------------------------------------------------
PackedSizePatched ==
    [][(last'.op = "pack" /\ last'.res = "OK")
          => PatchKept(last', fs.data, AppendStart(arc), AppendedBy(arc, arc'), arc')]_vars

PackedSizePatchedWitness ==
    /\ last.op = "pack" /\ last.res = "OK"
    /\ \E e, n \in Range(Entries(arc.data)) :
           /\ PackSizeField(e.off) \subseteq last.over
           /\ e.h.pack_size < e.h.unp_size
           /\ n.off = e.end
           /\ PackSizeField(n.off) \subseteq last.over
           /\ n.h.pack_size > n.h.unp_size

\* ------------------------------------------------------------------------
\* C27.  No spurious stall.  PackFileContent and UnpackFileContent throw
\* E_BAD_ARCHIVE for a stalled step only when the coder took no input and
\* gave no output, so never on sound data, however the coder splits its
\* work over the buffers: PackFilesW of readable source files into a new
\* archive, or into one that only successful PackFilesW calls wrote, does
\* not return E_BAD_ARCHIVE, and neither does the extraction of an entry of
\* such an archive.
\* ------------------------------------------------------------------------
NoSpuriousStall ==
    [][/\ (last'.op = "pack" /\ (clean \/ ~arc.exists)) => last'.res # "E_BAD_ARCHIVE"
       /\ (last'.op = "process" /\ clean) => last'.res # "E_BAD_ARCHIVE"]_vars

\* What a decoder without buffers makes of a stream s: whether it reaches the
\* end of the stream, meets a byte that cannot be there, or runs out of
\* input before the end, and how many bytes it has put out by then.
RECURSIVE RefRuns(_, _, _, _)
RefRuns(s, i, n, sum) ==
    IF i > Len(s) THEN [state |-> "starved", n |-> n, used |-> Len(s)]
    ELSE IF s[i] = 0
    THEN IF i + 1 > Len(s) THEN [state |-> "starved", n |-> n, used |-> Len(s)]
         ELSE IF s[i + 1] = sum THEN [state |-> "end", n |-> n, used |-> i + 1]
         ELSE [state |-> "error", n |-> n, used |-> i + 1]
    ELSE IF i + 1 > Len(s) THEN [state |-> "starved", n |-> n, used |-> Len(s)]
    ELSE RefRuns(s, i + 2, n + s[i], (sum + s[i] * s[i + 1]) % 256)

RefDecode(s) ==
    IF Len(s) < 1 THEN [state |-> "starved", n |-> 0, used |-> 0]
    ELSE IF s[1] # kStreamHead THEN [state |-> "error", n |-> 0, used |-> 1]
    ELSE IF Len(s) < 2 THEN [state |-> "starved", n |-> 0, used |-> 1]
    ELSE IF s[2] # kStreamHead2 THEN [state |-> "error", n |-> 0, used |-> 2]
    ELSE RefRuns(s, 3, 0, 0)

\* The payload of a record, as far as the file holds it.
PayloadOf(data, e) ==
    SubSeq(data, e.off + kHeaderSize + 2 * e.h.path_len + 1, Min(e.end, Len(data)))

\* ------------------------------------------------------------------------
\* C26.  Decode failure conditions.  ProcessFileW(PK_EXTRACT) on a
\* compressed entry whose payload is in the file returns E_BAD_ARCHIVE when
\* the stream runs out before its end, so that a step of inflate neither
\* takes input nor gives output, and when the stream ends after another
\* count of bytes than unp_size, unless the callback cancels the call; it
\* never returns success with a destination of another length than
\* unp_size.
\* ------------------------------------------------------------------------
DecodeFailures ==
    (last.op = "process" /\ last.how = "PK_EXTRACT" /\ last.res # "E_EABORTED")
        => \A e \in Range(Entries(arc.data)) :
               (/\ e.off = last.entry
                /\ HasFlag(e.h.flags, kEntryFlagCompressed)
                /\ e.end <= Len(arc.data))
                   => LET ref == RefDecode(PayloadOf(arc.data, e))
                      IN  /\ ref.state = "starved" => last.res = "E_BAD_ARCHIVE"
                          /\ (ref.state = "end" /\ ref.n # e.h.unp_size)
                                 => last.res = "E_BAD_ARCHIVE"
                          /\ last.res = "OK"
                                 => /\ last.dst.kind = "file"
                                    /\ Len(last.dst.data) = e.h.unp_size

\* ------------------------------------------------------------------------
\* C29.  Archive well-formedness under pack.  PackFilesW on a new archive or
\* on one that is the file magic followed by whole records leaves, however
\* it returns (success, cancelled, or failed at a candidate), a file that
\* is the file magic followed by whole records: each a header, its path
\* and as many payload bytes as its pack_size says.
\* ------------------------------------------------------------------------
WellFormedUnderPack ==
    [][(last'.op = "pack" /\ (~arc.exists \/ WellFormed(arc.data)))
          => (arc'.exists => WellFormed(arc'.data))]_vars

\* The cursor after the call is one past the payload of the entry that
\* ProcessFileW processed.
AtBoundary(data, call) ==
    \E e \in Range(Entries(data)) : e.off = call.entry /\ call.pos = e.end

\* Every live compressed entry has a payload that is one stream and nothing
\* more, as PackFile writes it.
TightStreams(data) ==
    \A e \in LiveEntries(data) :
        HasFlag(e.h.flags, kEntryFlagCompressed)
            => LET ref == RefDecode(PayloadOf(data, e))
               IN  ref.state = "end" /\ ref.used = e.h.pack_size

CursorAtBoundaryOfStreams ==
    (/\ last.op = "process" /\ last.res = "OK"
     /\ WellFormed(arc.data) /\ TightStreams(arc.data))
        => AtBoundary(arc.data, last)

CursorAtBoundaryOfStreamsWitness ==
    /\ last.op = "process" /\ last.res = "OK" /\ last.how = "PK_EXTRACT"
    /\ WellFormed(arc.data) /\ TightStreams(arc.data)
    /\ \E e, n \in Range(Entries(arc.data)) :
           /\ e.off = last.entry /\ last.pos = e.end
           /\ HasFlag(e.h.flags, kEntryFlagCompressed)
           /\ e.h.pack_size > kBufSize
           /\ n.off = e.end

\* ------------------------------------------------------------------------
\* C28.  Termination.  Every loop of the engine is left after finitely many
\* iterations, whatever the bytes of the archive and of the source file: the
\* loops of Decode and Encode, the header scans of ReadHeaderExW and
\* DeleteIf, and the climb of ShouldDelete.  No loop is ever again in a
\* state in which it began an earlier iteration.
\* ------------------------------------------------------------------------
LoopsTerminate == ~loop.revisited

\* C28, as far as it holds: the loops of Decode and Encode and the climb of
\* ShouldDelete are left on every input, and the header scans on every
\* archive that declares no packed size from 2^63 on.
ForwardLoopsTerminate == ~loop.back => ~loop.revisited

ForwardLoopsTerminateWitness ==
    /\ loop.kind = "DeleteIf" /\ ~loop.back /\ loop.done
    /\ loop.a.err = "OK" /\ loop.a.w # {} /\ Cardinality(loop.seen) > 4

\* ------------------------------------------------------------------------
\* C31.  Written entries are readable.  Every record that a PackFilesW call
\* appends has a path of at least 1 and at most kMaxFileNameLen - 1 code
\* units, which is what ReadEntryHeader accepts; a candidate with a longer
\* in-archive path is not written.
\* ------------------------------------------------------------------------
WrittenEntriesReadable ==
    [][last'.op = "pack"
          => \A e \in Range(AppendedBy(arc, arc')) :
                 e.h.path_len >= 1 /\ e.h.path_len <= kMaxFileNameLen - 1]_vars

\* The callback answered 0 at the first call the entry point made of it.
CancelledAtFirstReport(call) ==
    call.n >= 1 /\ call.invoked[Len(call.invoked) - call.n + 1].result = 0

\* ------------------------------------------------------------------------
\* C32.  Early cancel leaves the archive untouched.  When the callback
\* answers 0 to the report that PackFilesW and DeleteFilesW make before
\* anything else, the call returns E_EABORTED after that one report, the
\* archive file is not created when it was missing and keeps every byte
\* when it was there, and no source file is deleted.
\* ------------------------------------------------------------------------
EarlyCancelUntouched ==
    [][(last'.op \in {"pack", "erase"} /\ CancelledAtFirstReport(last'))
          => /\ last'.res = "E_EABORTED"
             /\ last'.n = 1
             /\ last'.w = {}
             /\ arc' = arc
             /\ fs' = fs]_vars

EarlyCancelUntouchedWitness ==
    /\ last.op = "pack" /\ CancelledAtFirstReport(last) /\ last.res = "E_EABORTED"
    /\ LiveEntries(arc.data) # {}
    /\ fs.gone = {}

\* ------------------------------------------------------------------------
\* C33.  Skip and Test do not decode.  ProcessFileW with PK_SKIP or PK_TEST
\* reads no byte of the file, writes none, leaves the destination as it
\* was, and returns success with the cursor moved on by pack_size of the
\* current entry, whatever the payload holds; it fails only when the seek
\* fails or the callback answers 0.
\* ------------------------------------------------------------------------
SkipAndTestDoNotDecode ==
    [][(last'.op = "process" /\ last'.how \in {"PK_SKIP", "PK_TEST"})
          => /\ last'.rd = {} /\ last'.w = {}
             /\ last'.dst = NoDst
             /\ last'.res \in {"OK", "E_EABORTED", "E_NOT_SUPPORTED"}
             /\ last'.res = "OK"
                    => last'.pos = session.pos + session.last_header_.pack_size
             /\ last'.res = "E_EABORTED"
                    => /\ last'.n >= 1
                       /\ last'.invoked[Len(last'.invoked)].result = 0
             /\ last'.res = "E_NOT_SUPPORTED"
                    => session.pos + session.last_header_.pack_size < 0]_vars

\* PK_TEST has returned success on a compressed entry whose payload is not
\* a sound stream.
SkipAndTestDoNotDecodeWitness ==
    /\ last.op = "process" /\ last.how = "PK_TEST" /\ last.res = "OK"
    /\ \E e \in Range(Entries(arc.data)) :
           /\ e.off = last.entry
           /\ HasFlag(e.h.flags, kEntryFlagCompressed)
           /\ e.h.pack_size > kBufSize
           /\ last.pos = e.end
           /\ RefDecode(PayloadOf(arc.data, e)).state = "error"

\* ------------------------------------------------------------------------
\* C34.  Aggregate-mode report value.  Every call of the callback that a
\* call of the read session makes passes no file name and, as size, the
\* byte count of the object at that moment, or 2^31 - 1 if the count is
\* above it, so a size from 0 to 2^31 - 1.  The count is 0 right after the
\* callback returned: a call of the session that the callback cancels ends
\* with a count of 0.  A report that is not due keeps what was counted:
\* after a skip that leaves the time of the last report as it was, the
\* count is the count before plus the packed size.
\* ------------------------------------------------------------------------
ReadCalls == {"open", "header", "process"}

AggregateReportValue ==
    [][last'.op \in ReadCalls
          => /\ \A i \in OwnCalls(last') :
                    LET c == last'.invoked[i]
                    IN  /\ c.file_name = nullptr
                        /\ c.size >= 0 /\ c.size <= INT_MAX
                        /\ c.size = IF c.acc < 0 THEN INT_MAX ELSE c.acc
             /\ last'.res = "E_EABORTED" => last'.bytes_processed = 0
             /\ (/\ last'.op = "process" /\ last'.how \in {"PK_SKIP", "PK_TEST"}
                 /\ last'.res = "OK"
                 /\ session'.last_progress_time_ = session.last_progress_time_)
                    => last'.bytes_processed
                           = session.bytes_processed_since_previous_progress_
                                 + session.last_header_.pack_size]_vars

\* A skip over a content of 2^64 - 1 bytes is reported as 2^31 - 1.
AggregateReportValueWitness ==
    /\ last.op = "process" /\ last.how = "PK_SKIP" /\ last.res = "OK"
    /\ last.n = 1
    /\ last.invoked[Len(last.invoked)].acc = -1
    /\ last.invoked[Len(last.invoked)].size = INT_MAX
    /\ last.invoked[Len(last.invoked)].file_name = nullptr
    /\ last.bytes_processed = 0

\* ------------------------------------------------------------------------
\* C35.  Direct-mode report value.  Every size that PackFilesW and
\* DeleteFilesW pass to the callback is from -100 to 0.  The first call
\* names the archive and passes 0.  A call of the scan names no file and
\* passes minus the rounded percentage, 100 at most, of the start offset of
\* the entry the scan has just passed over the size the archive had when it
\* was opened.  A call of the packing loop names a candidate and passes
\* minus the rounded percentage of the number of candidates before it over
\* the number of candidates; when every report is due, the calls of the
\* packing loop are for the candidates in their order.  CalcPercent is
\* never called with a count of 0.
\* ------------------------------------------------------------------------
\* p is number * 100 / count rounded to the nearest integer, a half upwards.
IsRoundedPercent(p, number, count) ==
    /\ count # 0
    /\ 200 * number - count < 2 * p * count
    /\ 2 * p * count <= 200 * number + count

\* The calls of the callback by the packing loop: those after the first
\* that name a file.
NamedCalls(call) ==
    {i \in OwnCalls(call) : i > Len(call.invoked) - call.n + 1
                            /\ call.invoked[i].file_name # nullptr}

DirectReportValue ==
    [][last'.op \in {"pack", "erase"}
          => /\ ~last'.asserted
             /\ \A i \in OwnCalls(last') :
                    LET c == last'.invoked[i]
                    IN  /\ c.size >= -100 /\ c.size <= 0
                        /\ i = Len(last'.invoked) - last'.n + 1
                               => c.file_name = packedFile /\ c.size = 0
                        /\ (i > Len(last'.invoked) - last'.n + 1
                            /\ c.file_name = nullptr)
                               => \E e \in Range(Entries(arc.data)) :
                                      /\ e.end = c.pos
                                      /\ \E p \in 0..100 :
                                             /\ c.size = -p
                                             /\ \/ IsRoundedPercent(p, e.off, Len(arc.data))
                                                \/ /\ p = 100
                                                   /\ e.off > Len(arc.data)
             /\ last'.op = "pack"
                    => \A i \in NamedCalls(last') :
                           LET c == last'.invoked[i]
                               count == Len(last'.arg)
                               before == Cardinality({j \in NamedCalls(last') : j < i})
                           IN  /\ \E k \in 0..(count - 1) :
                                      IsRoundedPercent(-c.size, k, count)
                               /\ tickStep > kProgressUpdateIntervalMilliseconds
                                      => IsRoundedPercent(-c.size, before, count)]_vars

\* A pack of three candidates onto an archive with entries reports the scan
\* and then each candidate: 0, -33 and -67.
DirectReportValueWitness ==
    /\ last.op = "pack" /\ last.res = "OK"
    /\ Len(last.arg) = 3
    /\ \E i \in OwnCalls(last) :
           last.invoked[i].file_name = nullptr /\ last.invoked[i].size < 0
    /\ {last.invoked[i].size : i \in NamedCalls(last)} = {0, -33, -67}

\* ------------------------------------------------------------------------
\* C36.  Erase is idempotent.  A DeleteFilesW call that follows a successful
\* DeleteFilesW call with the same deletion list leaves every byte of the
\* file as it was and returns success, unless the callback cancels it.  So
\* does a call whose deletion list matches no live entry, an empty list
\* included: the file is left as it was, whatever the call returns.
\* ------------------------------------------------------------------------
MatchedBy(data, deleteList) ==
    {e \in Range(Entries(data)) :
         Ancestors(UpperCase(e.path)) \cap DeletionSet(deleteList) # {}}

EraseIdempotent ==
    [][last'.op = "erase"
          => /\ (last.op = "erase" /\ last.res = "OK" /\ last'.arg = last.arg)
                    => /\ arc' = arc
                       /\ last'.w = {}
                       /\ last'.res \in {"OK", "E_EABORTED"}
                       /\ last'.res = "E_EABORTED"
                              => /\ last'.n >= 1
                                 /\ last'.invoked[Len(last'.invoked)].result = 0
             /\ (MatchedBy(arc.data, last'.arg) \cap LiveEntries(arc.data) = {})
                    => arc' = arc /\ last'.w = {}
             /\ last'.arg = <<>>
                    => /\ last'.res \in {"OK", "E_EABORTED"}
                       /\ last'.res = "OK" => last'.rd = {}]_vars

\* An erase that returned success without a write on an archive that has
\* live entries and a tombstone its deletion list matches.
EraseIdempotentWitness ==
    /\ last.op = "erase" /\ last.res = "OK" /\ last.w = {}
    /\ LiveEntries(arc.data) # {}
    /\ \E e \in MatchedBy(arc.data, last.arg) : ~IsLive(e)

\* ------------------------------------------------------------------------
\* C37.  Cleanup is specific to cancellation.  When ProcessFileW with
\* PK_EXTRACT on a file entry fails with a code other than E_EABORTED after
\* the destination file was created, the code is one of those of a read
\* error, of bad data and of a bad archive, and the destination file is
\* there when the call returns.  The destination is missing after the call
\* only when the call returns E_EABORTED.
\* ------------------------------------------------------------------------
ExtractsFile(call, h) ==
    /\ call.op = "process" /\ call.how = "PK_EXTRACT"
    /\ ~HasFlag(h.attributes, FILE_ATTR_DIRECTORY)

IOFailureKinds ==
    [][/\ last'.res # "E_NOT_SUPPORTED"
       /\ (/\ last'.op = "process" /\ last'.how = "PK_EXTRACT"
           /\ ~HasFlag(session.last_header_.attributes, FILE_ATTR_DIRECTORY)
           /\ ~HasFlag(session.last_header_.flags, kEntryFlagCompressed)
           /\ \/ session.last_header_.pack_size < 0
              \/ session.pos + session.last_header_.pack_size > Len(arc.data))
              => last'.res \in {"E_EREAD", "E_ECREATE", "E_EABORTED"}]_vars

\* ------------------------------------------------------------------------
\* C39.  Byte accounting of aggregate progress.  For every call of a read
\* session that returns success, with a callback registered and no report
\* capped, the
\* sizes the call reported plus the byte count it leaves, less the byte
\* count it found, is the number of bytes the cursor moved: the bytes of the
\* file the call read or skipped, the 8 bytes of the file magic, every entry
\* header, every path with two bytes to the code unit, every payload.  The
\* byte count of a new session is 0, so at every point of the session what
\* was reported plus what is counted is what was read or skipped.
\* ------------------------------------------------------------------------
RECURSIVE SizesReported(_, _)
SizesReported(invoked, from) ==
    IF from > Len(invoked) THEN 0
    ELSE invoked[from].size + SizesReported(invoked, from + 1)

\* What the call reported and what it added to the byte count.
Accounted(before, call) ==
    SizesReported(call.invoked, Len(call.invoked) - call.n + 1)
        + call.bytes_processed - before.bytes_processed_since_previous_progress_

\* The reports of the call go to a callback, and none of them is capped.
Uncapped(before, call) ==
    /\ before.process_data_proc_ \/ g_global_process_data_proc
    /\ before.last_header_.pack_size >= 0
    /\ \A i \in OwnCalls(call) :
           call.invoked[i].acc >= 0 /\ call.invoked[i].acc <= INT_MAX

ByteAccounting ==
    [][(last'.op \in ReadCalls /\ last'.res = "OK" /\ Uncapped(session', last')
        /\ Uncapped(session, last'))
          => Accounted(session, last') = last'.pos - session.pos]_vars

\* C39 as it holds: the same with every path counted in code units, one to
\* every two bytes of it.
PathUnitsRead(data, from, to) ==
    LET read == {e \in Range(Entries(data)) : from <= e.off /\ e.off < to}
        RECURSIVE Units(_)
        Units(es) == IF es = {} THEN 0
                     ELSE LET e == CHOOSE x \in es : TRUE
                          IN  e.h.path_len + Units(es \ {e})
    IN  Units(read)

ByteAccountingInPathUnits ==
    [][(last'.op \in ReadCalls /\ last'.res = "OK" /\ Uncapped(session', last')
        /\ Uncapped(session, last'))
          => Accounted(session, last')
                 = (last'.pos - session.pos)
                       - PathUnitsRead(arc.data, session.pos, last'.pos)]_vars

ByteAccountingInPathUnitsWitness ==
    /\ last.op = "process" /\ last.how = "PK_EXTRACT" /\ last.res = "OK"
    /\ last.n >= 2
    /\ last.bytes_processed = 0
    /\ SizesReported(last.invoked, Len(last.invoked) - last.n + 1) > kBufSize

====
